---------------------------- MODULE Spec2Model ----------------------------
(***************************************************************************)
(* Symbol placement of mapbox-gl-js (src/symbol/placement.js): the          *)
(* Placement engine, its fade (opacity) state machine and the opacity       *)
(* packing.                                                                 *)
(*                                                                          *)
(* Numbers.  Times are integers.  Opacities and fade increments are exact   *)
(* rationals <<n, d>> (d > 0, lowest terms), so that                        *)
(* (now - commitTime) / fadeDuration is computed exactly.                   *)
(* Optional values (undefined / null in the source) are sequences of        *)
(* length 0 or 1.  Objects keyed by crossTileID are functions whose DOMAIN  *)
(* is the set of keys present.                                              *)
(***************************************************************************)
EXTENDS Integers, Sequences, FiniteSets, TLC

VARIABLES
    heap,              \* the live Placement objects: the newest one last, its
                       \* predecessor (if any) before it
    tiles,             \* the tiles (and their symbol buckets) of the layer
    seenCrossTileIDs,  \* the sweep's seenCrossTileIDs map (set of keys set)
    log,               \* history: what each symbol instance of the sweep did
    call,              \* the last operation and its inputs / result
    absent             \* history: since when each crossTileID has not been placed

vars == <<heap, tiles, seenCrossTileIDs, log, call, absent>>

-----------------------------------------------------------------------------
(* Generic helpers *)

None == << >>
Some(x) == <<x>>
IsSome(o) == Len(o) > 0
Val(o) == o[1]

EmptyMap == << >>

Min2(a, b) == IF a <= b THEN a ELSE b
Max2(a, b) == IF a >= b THEN a ELSE b
Abs(n) == IF n < 0 THEN 0 - n ELSE n

RECURSIVE GCD(_, _)
GCD(a, b) == IF b = 0 THEN a ELSE GCD(b, a % b)

\* the set of positions of sequence s holding x
Positions(s, x) == {k \in 1..Len(s) : s[k] = x}
Contains(s, x) == Positions(s, x) # {}
SeqFilter(s, Keep(_)) == SelectSeq(s, Keep)

\* f with key k set to v (the key is added when absent)
Put(f, k, v) == [x \in (DOMAIN f) \cup {k} |-> IF x = k THEN v ELSE f[x]]

-----------------------------------------------------------------------------
(* Exact rational arithmetic *)

Rat(n, d) ==
    LET s == IF d < 0 THEN 0 - 1 ELSE 1
        g == GCD(Abs(n), Abs(d))
    IN  <<(s * n) \div g, (s * d) \div g>>

RZero == <<0, 1>>
ROne  == <<1, 1>>
RAdd(a, b) == Rat(a[1] * b[2] + b[1] * a[2], a[2] * b[2])
RNeg(a) == <<0 - a[1], a[2]>>
RLe(a, b) == a[1] * b[2] <= b[1] * a[2]
RMin(a, b) == IF RLe(a, b) THEN a ELSE b
RMax(a, b) == IF RLe(a, b) THEN b ELSE a
\* Math.floor(a * k) for an integer k
RFloorTimes(a, k) == (a[1] * k) \div a[2]

-----------------------------------------------------------------------------
(* OpacityState, JointOpacityState, JointPlacement *)

\* the clamp of the fade step dropped: opacity runs out of [0, 1]
OpacityStateUnclamped(prevState, increment, placed, skipFade) ==
    [opacity |-> IF IsSome(prevState)
                 THEN RAdd(Val(prevState).opacity,
                           IF Val(prevState).placed THEN increment ELSE RNeg(increment))
                 ELSE IF skipFade /\ placed THEN ROne ELSE RZero,
     placed  |-> placed]

\* the fade direction taken from the new placed flag instead of the previous one
OpacityStateNewFlag(prevState, increment, placed, skipFade) ==
    [opacity |-> IF IsSome(prevState)
                 THEN RMax(RZero, RMin(ROne,
                          RAdd(Val(prevState).opacity,
                               IF placed THEN increment ELSE RNeg(increment))))
                 ELSE IF skipFade /\ placed THEN ROne ELSE RZero,
     placed  |-> placed]

\* new OpacityState(prevState, increment, placed, skipFade)
OpacityState(prevState, increment, placed, skipFade) ==
    [opacity |-> IF IsSome(prevState)
                 THEN RMax(RZero, RMin(ROne,
                          RAdd(Val(prevState).opacity,
                               IF Val(prevState).placed THEN increment ELSE RNeg(increment))))
                 ELSE IF skipFade /\ placed THEN ROne ELSE RZero,
     placed  |-> placed]

\* OpacityState.isHidden()
OpacityIsHidden(s) == s.opacity = RZero /\ ~s.placed

\* new JointOpacityState(prevState, increment, placedText, placedIcon, skipFade)
JointOpacityState(prevState, increment, placedText, placedIcon, skipFade) ==
    [text |-> OpacityState(IF IsSome(prevState) THEN Some(Val(prevState).text) ELSE None,
                           increment, placedText, skipFade),
     icon |-> OpacityState(IF IsSome(prevState) THEN Some(Val(prevState).icon) ELSE None,
                           increment, placedIcon, skipFade)]

\* JointOpacityState.isHidden()
JointIsHidden(s) == OpacityIsHidden(s.text) /\ OpacityIsHidden(s.icon)

\* new JointPlacement(text, icon, skipFade)
JointPlacement(text, icon, skipFade) ==
    [text |-> text, icon |-> icon, skipFade |-> skipFade]

-----------------------------------------------------------------------------
(* packOpacity *)

(* A packed opacity is a JavaScript number below 2^53; it is kept here as  *)
(* two 16-bit limbs <<hi, lo>> (value hi * 2^16 + lo) and never wrapped, so *)
(* a result of 2^32 or more shows as hi >= 2^16.                            *)
Limb == 2 ^ 16
U32(n) == <<n \div Limb, n % Limb>>
U32Add(a, b) == <<a[1] + b[1] + ((a[2] + b[2]) \div Limb), (a[2] + b[2]) % Limb>>
\* n * w for a small integer n
U32Scale(n, w) == <<n * w[1] + ((n * w[2]) \div Limb), (n * w[2]) % Limb>>
\* Math.pow(2, k)
Pow2(k) == IF k >= 16 THEN <<2 ^ (k - 16), 0>> ELSE U32(2 ^ k)
\* the four 8-bit lanes of a packed value, most significant first
Lanes(w) == <<w[1] \div 256, w[1] % 256, w[2] \div 256, w[2] % 256>>

shift25 == Pow2(25)
shift24 == Pow2(24)
shift17 == Pow2(17)
shift16 == Pow2(16)
shift9  == Pow2(9)
shift8  == Pow2(8)
shift1  == Pow2(1)
\* the literal 4294967295
AllBitsSet == <<Limb - 1, Limb - 1>>

\* the placed bit left out of the lanes
packOpacityNoTarget(opacityState) ==
    IF opacityState.opacity = RZero /\ ~opacityState.placed THEN U32(0)
    ELSE IF opacityState.opacity = ROne /\ opacityState.placed THEN AllBitsSet
    ELSE LET opacityBits == RFloorTimes(opacityState.opacity, 127)
         IN  U32Add(U32Add(U32Scale(opacityBits, shift25), U32Scale(opacityBits, shift17)),
                    U32Add(U32Scale(opacityBits, shift9), U32Scale(opacityBits, shift1)))

packOpacity(opacityState) ==
    IF opacityState.opacity = RZero /\ ~opacityState.placed THEN U32(0)
    ELSE IF opacityState.opacity = ROne /\ opacityState.placed THEN AllBitsSet
    ELSE LET targetBit == IF opacityState.placed THEN 1 ELSE 0
             opacityBits == RFloorTimes(opacityState.opacity, 127)
         IN  U32Add(
               U32Add(U32Add(U32Scale(opacityBits, shift25), U32Scale(targetBit, shift24)),
                      U32Add(U32Scale(opacityBits, shift17), U32Scale(targetBit, shift16))),
               U32Add(U32Add(U32Scale(opacityBits, shift9), U32Scale(targetBit, shift8)),
                      U32Add(U32Scale(opacityBits, shift1), U32(targetBit))))

-----------------------------------------------------------------------------
(* Anchors (symbol_layout.js, shaping.js) *)

AUTO_DYNAMIC_PLACEMENT ==
    <<"center", "top", "bottom", "left", "right",
      "top-left", "top-right", "bottom-left", "bottom-right">>

\* getAnchorJustification(anchor)
getAnchorJustification(anchor) ==
    IF anchor \in {"right", "top-right", "bottom-right"} THEN "right"
    ELSE IF anchor \in {"left", "top-left", "bottom-left"} THEN "left"
    ELSE "center"

\* getAnchorAlignment(anchor), both alignments doubled (0, 1, 2 for 0, 0.5, 1)
getAnchorAlignment(anchor) ==
    [horizontalAlign2 |->
        IF anchor \in {"right", "top-right", "bottom-right"} THEN 2
        ELSE IF anchor \in {"left", "top-left", "bottom-left"} THEN 0 ELSE 1,
     verticalAlign2 |->
        IF anchor \in {"bottom", "bottom-right", "bottom-left"} THEN 2
        ELSE IF anchor \in {"top", "top-right", "top-left"} THEN 0 ELSE 1]

\* radialOffset / Math.sqrt(2), rounded down to the coordinate grid
Hypotenuse(radialOffset) == (radialOffset * 7071) \div 10000

\* getDynamicOffset(anchor, radialOffset): <<x, y>>
getDynamicOffset(anchor, radialOffset) ==
    LET hypotenuse == Hypotenuse(radialOffset)
        y == IF anchor \in {"top-right", "top-left"} THEN hypotenuse
             ELSE IF anchor \in {"bottom-right", "bottom-left"} THEN 0 - hypotenuse
             ELSE IF anchor = "bottom" THEN 0 - radialOffset
             ELSE IF anchor = "top" THEN radialOffset
             ELSE 0
        x == IF anchor \in {"top-right", "bottom-right"} THEN 0 - hypotenuse
             ELSE IF anchor \in {"top-left", "bottom-left"} THEN hypotenuse
             ELSE IF anchor = "left" THEN radialOffset
             ELSE IF anchor = "right" THEN 0 - radialOffset
             ELSE 0
    IN  <<x, y>>

\* calculateDynamicLayoutOffset(anchor, width, height, radialOffset, textBoxScale)
\* (widths and heights of the model are even, so the halves are integers)
calculateDynamicLayoutOffset(anchor, width, height, radialOffset, textBoxScale) ==
    LET al == getAnchorAlignment(anchor)
        shiftX == (0 - (al.horizontalAlign2 - 1) * width) \div 2
        shiftY == (0 - (al.verticalAlign2 - 1) * height) \div 2
        offset == IF radialOffset # 0 THEN getDynamicOffset(anchor, radialOffset)
                  ELSE <<0, 0>>
    IN  [x |-> shiftX + offset[1] * textBoxScale,
         y |-> shiftY + offset[2] * textBoxScale]

\* Point._rotate(angle), the angle counted in quarter turns
Rotate(pt, quarterTurns) ==
    LET q == quarterTurns % 4
    IN  IF q = 0 THEN pt
        ELSE IF q = 1 THEN [x |-> 0 - pt.y, y |-> pt.x]
        ELSE IF q = 2 THEN [x |-> 0 - pt.x, y |-> 0 - pt.y]
        ELSE [x |-> pt.y, y |-> 0 - pt.x]

\* shiftDynamicCollisionBox(collisionBox, shiftX, shiftY, rotateWithMap, pitchWithMap, angle)
shiftDynamicCollisionBox(collisionBox, shiftX, shiftY, rotateWithMap, pitchWithMap, angle) ==
    LET rotatedOffset ==
            IF rotateWithMap
            THEN Rotate([x |-> shiftX, y |-> shiftY],
                        IF pitchWithMap THEN angle ELSE 4 - angle)
            ELSE [x |-> shiftX, y |-> shiftY]
    IN  [x1 |-> collisionBox.x1 + rotatedOffset.x,
         y1 |-> collisionBox.y1 + rotatedOffset.y,
         x2 |-> collisionBox.x2 + rotatedOffset.x,
         y2 |-> collisionBox.y2 + rotatedOffset.y,
         anchorPointX |-> collisionBox.anchorPointX,
         anchorPointY |-> collisionBox.anchorPointY]

-----------------------------------------------------------------------------
(* CollisionIndex (collision_index.js, an external collaborator): the grid  *)
(* of inserted boxes, and the grid of the boxes that ignore placement.      *)
(* Viewport coordinates are the tile coordinates (identity projection).     *)

GridSize == 6          \* the indexed grid is [0, GridSize) x [0, GridSize)
ViewportPadding == 2   \* the screen is the grid less this margin

NewCollisionIndex == [grid |-> << >>, ignoredGrid |-> << >>]

\* the projected box <<tlX, tlY, brX, brY>>
ProjectBox(b) == <<b.anchorPointX + b.x1, b.anchorPointY + b.y1,
                   b.anchorPointX + b.x2, b.anchorPointY + b.y2>>

isInsideGrid(v) == v[3] >= 0 /\ v[1] < GridSize /\ v[4] >= 0 /\ v[2] < GridSize

isOffscreen(v) ==
    \/ v[3] < ViewportPadding
    \/ v[1] >= GridSize - ViewportPadding
    \/ v[4] < ViewportPadding
    \/ v[2] > GridSize - ViewportPadding

BoxesIntersect(v, w) == v[1] <= w[3] /\ v[2] <= w[4] /\ v[3] >= w[1] /\ v[4] >= w[2]

\* a collision group predicate (None: null, every key accepted) applied to a key
Accepts(predicate, key) ==
    ~IsSome(predicate) \/ key.collisionGroupID = Val(predicate)

\* grid.hitTest(x1, y1, x2, y2, predicate)
hitTest(grid, v, predicate) ==
    \E k \in 1..Len(grid) :
        BoxesIntersect(v, grid[k].box) /\ Accepts(predicate, grid[k].key)

\* collisionIndex.placeCollisionBox(box, allowOverlap, ..., predicate)
placeCollisionBox(collisionIndex, collisionBox, allowOverlap, predicate) ==
    LET v == ProjectBox(collisionBox)
    IN  IF ~isInsideGrid(v) \/ (~allowOverlap /\ hitTest(collisionIndex.grid, v, predicate))
        THEN [box |-> << >>, offscreen |-> FALSE]
        ELSE [box |-> v, offscreen |-> isOffscreen(v)]

\* collisionIndex.insertCollisionBox(box, ignorePlacement, bucketInstanceId,
\* featureIndex, collisionGroupID)
insertCollisionBox(collisionIndex, box, ignorePlacement, bucketInstanceId, featureIndex, collisionGroupID) ==
    LET entry == [box |-> box,
                  key |-> [bucketInstanceId |-> bucketInstanceId,
                           featureIndex |-> featureIndex,
                           collisionGroupID |-> collisionGroupID]]
    IN  IF ignorePlacement
        THEN [collisionIndex EXCEPT !.ignoredGrid = Append(@, entry)]
        ELSE [collisionIndex EXCEPT !.grid = Append(@, entry)]

\* collisionIndex.placeCollisionCircles(circles, allowOverlap, ..., predicate):
\* each circle is taken as its bounding box
placeCollisionCircles(collisionIndex, textCircles, allowOverlap, predicate) ==
    LET vs == [k \in 1..Len(textCircles) |-> ProjectBox(textCircles[k])]
        collisionDetected ==
            ~allowOverlap /\
            \E k \in 1..Len(vs) : hitTest(collisionIndex.grid, vs[k], predicate)
        inGrid == \E k \in 1..Len(vs) : isInsideGrid(vs[k])
        entirelyOffscreen == \A k \in 1..Len(vs) : isOffscreen(vs[k])
    IN  IF collisionDetected THEN [circles |-> << >>, offscreen |-> FALSE]
        ELSE [circles |-> IF inGrid THEN vs ELSE << >>,
              offscreen |-> entirelyOffscreen]

RECURSIVE insertCollisionCircles(_, _, _, _, _, _)
\* collisionIndex.insertCollisionCircles(circles, ignorePlacement, ...)
insertCollisionCircles(collisionIndex, circles, ignorePlacement, bucketInstanceId, featureIndex, collisionGroupID) ==
    IF circles = << >> THEN collisionIndex
    ELSE insertCollisionCircles(
            insertCollisionBox(collisionIndex, Head(circles), ignorePlacement,
                               bucketInstanceId, featureIndex, collisionGroupID),
            Tail(circles), ignorePlacement, bucketInstanceId, featureIndex,
            collisionGroupID)

-----------------------------------------------------------------------------
(* CollisionGroups *)

\* new CollisionGroups(crossSourceCollisions)
NewCollisionGroups(crossSourceCollisions) ==
    [crossSourceCollisions |-> crossSourceCollisions,
     maxGroupID |-> 0,
     collisionGroups |-> EmptyMap]

\* The property names an object literal {} answers without owning them (those
\* of Object.prototype; two of them stand for all): this.collisionGroups is
\* such a literal (line 139) and is read by name (line 147).
InheritedKeys == {"constructor", "toString"}

\* the value of a property that is not there, written as an id no group takes
Undefined == 0 - 1

\* this.collisionGroups[sourceID] read from a member of Object.prototype: a
\* function, which has neither an ID nor a predicate
InheritedMember == [ID |-> Undefined, predicate |-> None]

\* this.collisionGroups[sourceID] is truthy (line 147)
HasGroup(cg, sourceID) ==
    sourceID \in DOMAIN cg.collisionGroups \/ sourceID \in InheritedKeys

\* get with the enabled flag ignored
CollisionGroupsGetPerSource(cg, sourceID) ==
    IF sourceID \in DOMAIN cg.collisionGroups THEN cg.collisionGroups[sourceID]
    ELSE [ID |-> cg.maxGroupID + 1, predicate |-> Some(cg.maxGroupID + 1)]

\* CollisionGroups.get(sourceID): the object after the call
CollisionGroupsAfterGet(cg, sourceID) ==
    IF ~cg.crossSourceCollisions /\ ~HasGroup(cg, sourceID)
    THEN [cg EXCEPT !.maxGroupID = cg.maxGroupID + 1,
                    !.collisionGroups =
                        Put(cg.collisionGroups, sourceID,
                            [ID |-> cg.maxGroupID + 1,
                             predicate |-> Some(cg.maxGroupID + 1)])]
    ELSE cg

\* CollisionGroups.get(sourceID): the group returned
CollisionGroupsGet(cg, sourceID) ==
    IF ~cg.crossSourceCollisions
    THEN IF sourceID \in DOMAIN CollisionGroupsAfterGet(cg, sourceID).collisionGroups
         THEN CollisionGroupsAfterGet(cg, sourceID).collisionGroups[sourceID]
         ELSE InheritedMember
    ELSE [ID |-> 0, predicate |-> None]

-----------------------------------------------------------------------------
(* Buckets (symbol_bucket.js) as placement reads them *)

\* bucket.hasTextData(), bucket.hasIconData(): the bucket holds glyph / icon quads
hasTextData(bucket) ==
    \E k \in 1..Len(bucket.symbolInstances) :
        bucket.symbolInstances[k].numHorizontalGlyphVertices > 0
        \/ bucket.symbolInstances[k].numVerticalGlyphVertices > 0
hasIconData(bucket) ==
    \E k \in 1..Len(bucket.symbolInstances) :
        bucket.symbolInstances[k].numIconVertices > 0
\* the bucket has collision debug buffers (the map shows collision boxes)
hasCollisionBoxData(bucket) == bucket.collisionBoxData
hasCollisionCircleData(bucket) == bucket.collisionCircleData

\* the three justification indices of a symbol instance
Justifications(symbolInstance) ==
    [left   |-> symbolInstance.leftJustifiedTextSymbolIndex,
     center |-> symbolInstance.centerJustifiedTextSymbolIndex,
     right  |-> symbolInstance.rightJustifiedTextSymbolIndex]

-----------------------------------------------------------------------------
(* Placement *)

\* a new Placement that does not keep the prevPlacement it is given
NewPlacementUnlinked(angle, fadeDuration, crossSourceCollisions, prevPlacement) ==
    [angle |-> angle,
     collisionIndex |-> NewCollisionIndex,
     placements |-> EmptyMap,
     opacities |-> EmptyMap,
     dynamicOffsets |-> EmptyMap,
     stale |-> FALSE,
     commitTime |-> 0,
     lastPlacementChangeTime |-> None,
     fadeDuration |-> fadeDuration,
     retainedQueryData |-> EmptyMap,
     collisionGroups |-> NewCollisionGroups(crossSourceCollisions),
     prevPlacement |-> 0]

\* new Placement(transform, fadeDuration, crossSourceCollisions, prevPlacement):
\* the new object; prevPlacement is a position of the heap, 0 for undefined
NewPlacement(angle, fadeDuration, crossSourceCollisions, prevPlacement) ==
    [angle |-> angle,
     collisionIndex |-> NewCollisionIndex,
     placements |-> EmptyMap,
     opacities |-> EmptyMap,
     dynamicOffsets |-> EmptyMap,
     stale |-> FALSE,
     commitTime |-> 0,
     lastPlacementChangeTime |-> None,
     fadeDuration |-> fadeDuration,
     retainedQueryData |-> EmptyMap,
     collisionGroups |-> NewCollisionGroups(crossSourceCollisions),
     prevPlacement |-> prevPlacement]

\* Placement.hideUnplacedJustifications(bucket, placedJustification, symbolInstance):
\* the bucket after the call (a write at a negative index changes nothing)
hideUnplacedJustifications(bucket, placedJustification, symbolInstance) ==
    LET instances == Justifications(symbolInstance)
        placedIndex == instances[placedJustification]
        others == {instances[j] : j \in {"left", "center", "right"}}
        arr == bucket.placedSymbols
    IN  [bucket EXCEPT !.placedSymbols =
            [k \in DOMAIN arr |->
                IF k = placedIndex
                THEN [arr[k] EXCEPT !.crossTileID = symbolInstance.crossTileID]
                ELSE IF k \in others THEN [arr[k] EXCEPT !.crossTileID = 0]
                ELSE arr[k]]]

\* this.prevPlacement.dynamicOffsets[crossTileID], None when there is none
PrevOffset(prev, crossTileID) ==
    IF IsSome(prev) /\ crossTileID \in DOMAIN Val(prev).dynamicOffsets
    THEN Some(Val(prev).dynamicOffsets[crossTileID])
    ELSE None

(* Placement.attemptAnchorPlacement.  cx holds the arguments that do not   *)
(* change between the anchors of one label: dynamicAnchors, collisionArrays, *)
(* textBox, dynamicTextOffset, textBoxScale, rotateWithMap, pitchWithMap,    *)
(* collisionGroup, justifications, textAllowOverlap, symbolInstance.         *)
(* The result: what is returned (None for undefined), the Placement and the  *)
(* bucket after the call, whether the collision index was queried, and       *)
(* whether warnOnce was called.                                              *)
attemptAnchorPlacement(this, prev, bucket, anchor, cx) ==
    LET nothing == [result |-> None, this |-> this, bucket |-> bucket, queried |-> FALSE,
                    warned |-> FALSE]
        justification == getAnchorJustification(anchor)
        justifiedPlacedSymbol == cx.justifications[justification]
        width == cx.textBox.x2 - cx.textBox.x1
        height == cx.textBox.y2 - cx.textBox.y1
        shift == calculateDynamicLayoutOffset(anchor, width, height,
                                              cx.dynamicTextOffset, cx.textBoxScale)
        placedGlyphBoxes ==
            placeCollisionBox(this.collisionIndex,
                shiftDynamicCollisionBox(Val(cx.collisionArrays.textBox), shift.x, shift.y,
                                         cx.rotateWithMap, cx.pitchWithMap, this.angle),
                cx.textAllowOverlap, cx.collisionGroup.predicate)
        id == cx.symbolInstance.crossTileID
        prevAnchor ==
            IF /\ IsSome(prev)
               /\ id \in DOMAIN Val(prev).dynamicOffsets
               /\ id \in DOMAIN Val(prev).placements
               /\ Val(prev).placements[id].text
            THEN Some(Val(prev).dynamicOffsets[id].anchor)
            ELSE None
    IN  IF IsSome(cx.collisionArrays.iconBox) /\ cx.dynamicAnchors[1] = "auto"
           /\ anchor = "center"
        THEN nothing
        ELSE IF anchor = "auto" THEN [nothing EXCEPT !.warned = TRUE]
        ELSE IF justifiedPlacedSymbol < 0 THEN nothing
        ELSE IF ~IsSome(cx.collisionArrays.textBox) THEN nothing
        ELSE IF Len(placedGlyphBoxes.box) > 0
        THEN [result |-> Some(placedGlyphBoxes),
              this |-> [this EXCEPT !.dynamicOffsets =
                          Put(@, id, [radialOffset |-> cx.dynamicTextOffset,
                                      width |-> width,
                                      height |-> height,
                                      anchor |-> anchor,
                                      textBoxScale |-> cx.textBoxScale,
                                      prevAnchor |-> prevAnchor])],
              bucket |-> hideUnplacedJustifications(bucket, justification, cx.symbolInstance),
              queried |-> TRUE,
              warned |-> FALSE]
        ELSE [nothing EXCEPT !.queried = TRUE]

\* the previous anchor left where the candidate list has it
OrderAnchorsNoBias(dynamicAnchors, prevOffset) ==
    IF dynamicAnchors[1] = "auto" THEN AUTO_DYNAMIC_PLACEMENT ELSE dynamicAnchors

\* the candidate anchors of a label, the previously used anchor shifted to the
\* front (placeLayerBucket, lines 413-421)
OrderAnchors(dynamicAnchors, prevOffset) ==
    LET anchors == IF dynamicAnchors[1] = "auto" THEN AUTO_DYNAMIC_PLACEMENT
                   ELSE dynamicAnchors
        NotPrev(a) == a # Val(prevOffset).anchor
    IN  IF IsSome(prevOffset) /\ anchors[1] # Val(prevOffset).anchor
        THEN <<Val(prevOffset).anchor>> \o SelectSeq(anchors, NotPrev)
        ELSE anchors

RECURSIVE AttemptAnchorsStopAtAuto(_, _, _, _, _, _, _, _)
\* the loop over the anchors given up at an anchor that warns
AttemptAnchorsStopAtAuto(this, prev, bucket, anchors, cx, attempts, queries, warnings) ==
    IF anchors = << >>
    THEN [result |-> None, this |-> this, bucket |-> bucket,
          attempts |-> attempts, queries |-> queries, warnings |-> warnings]
    ELSE LET r == attemptAnchorPlacement(this, prev, bucket, Head(anchors), cx)
             att == Append(attempts, Head(anchors))
             qs == IF r.queried THEN Append(queries, Head(anchors)) ELSE queries
             ws == IF r.warned THEN Append(warnings, Len(att)) ELSE warnings
         IN  IF IsSome(r.result) \/ r.warned
             THEN [result |-> r.result, this |-> r.this, bucket |-> r.bucket,
                   attempts |-> att, queries |-> qs, warnings |-> ws]
             ELSE AttemptAnchorsStopAtAuto(r.this, prev, r.bucket, Tail(anchors), cx,
                                           att, qs, ws)

RECURSIVE AnchorAttempted(_, _, _, _, _, _, _)
RECURSIVE AttemptAnchors(_, _, _, _, _, _, _, _)
(* the loop over the anchors (lines 423-432): stops at the first anchor that *)
(* is placed.  attempts, queries and warnings are the anchors attempted,     *)
(* queried and warned about so far.                                          *)
AttemptAnchors(this, prev, bucket, anchors, cx, attempts, queries, warnings) ==
    IF anchors = << >>
    THEN [result |-> None, this |-> this, bucket |-> bucket,
          attempts |-> attempts, queries |-> queries, warnings |-> warnings]
    ELSE AnchorAttempted(attemptAnchorPlacement(this, prev, bucket, Head(anchors), cx),
                         prev, anchors, cx, attempts, queries, warnings)

\* the loop left after its first pass, whatever the anchor returned
AnchorAttemptedOnce(r, prev, anchors, cx, attempts, queries, warnings) ==
    [result |-> r.result, this |-> r.this, bucket |-> r.bucket,
     attempts |-> Append(attempts, Head(anchors)),
     queries |-> IF r.queried THEN Append(queries, Head(anchors)) ELSE queries,
     warnings |-> IF r.warned THEN Append(warnings, Len(attempts) + 1) ELSE warnings]

\* one pass of the loop: r is what attemptAnchorPlacement returned for the
\* first of the anchors (lines 424-431)
AnchorAttempted(r, prev, anchors, cx, attempts, queries, warnings) ==
    LET att == Append(attempts, Head(anchors))
        qs == IF r.queried THEN Append(queries, Head(anchors)) ELSE queries
        ws == IF r.warned THEN Append(warnings, Len(att)) ELSE warnings
    IN  IF IsSome(r.result)
        THEN [result |-> r.result, this |-> r.this, bucket |-> r.bucket,
              attempts |-> att, queries |-> qs, warnings |-> ws]
        ELSE AttemptAnchors(r.this, prev, r.bucket, Tail(anchors), cx, att, qs, ws)

\* the dedup test dropped: every instance is resolved
AlreadySeenNever(seen, crossTileID) == FALSE

\* seenCrossTileIDs[symbolInstance.crossTileID] (line 367)
AlreadySeen(seen, crossTileID) == crossTileID \in seen

\* the override taken from the part's own allow-overlap flag alone
AlwaysShowTextOwnFlag(layout, bucket) == layout.textAllowOverlap

\* alwaysShowText (line 353)
AlwaysShowText(layout, bucket) ==
    layout.textAllowOverlap /\
    (layout.iconAllowOverlap \/ ~hasIconData(bucket) \/ layout.iconOptional)

\* alwaysShowIcon (line 354)
AlwaysShowIcon(layout, bucket) ==
    layout.iconAllowOverlap /\
    (layout.textAllowOverlap \/ ~hasTextData(bucket) \/ layout.textOptional)

\* the two booleans AND-ed whenever neither part is optional
CombineAlwaysJoint(placeText, placeIcon, layout, symbolInstance) ==
    IF ~layout.textOptional /\ ~layout.iconOptional
    THEN [text |-> placeIcon /\ placeText, icon |-> placeIcon /\ placeText]
    ELSE [text |-> placeText, icon |-> placeIcon]

\* the two booleans left as the collision attempts gave them
CombineUncoupled(placeText, placeIcon, layout, symbolInstance) ==
    [text |-> placeText, icon |-> placeIcon]

\* "Combine the scales for icons and text" (lines 482-494)
CombinePlacement(placeText, placeIcon, layout, symbolInstance) ==
    LET iconWithoutText ==
            layout.textOptional \/
            (symbolInstance.numHorizontalGlyphVertices = 0 /\
             symbolInstance.numVerticalGlyphVertices = 0)
        textWithoutIcon == layout.iconOptional \/ symbolInstance.numIconVertices = 0
    IN  IF ~iconWithoutText /\ ~textWithoutIcon
        THEN [text |-> placeIcon /\ placeText, icon |-> placeIcon /\ placeText]
        ELSE IF ~textWithoutIcon
        THEN [text |-> placeIcon /\ placeText, icon |-> placeIcon]
        ELSE IF ~iconWithoutText
        THEN [text |-> placeText, icon |-> placeIcon /\ placeText]
        ELSE [text |-> placeText, icon |-> placeIcon]

\* the placed text box not inserted into the collision index
InsertTextBoxSkipped(collisionIndex, box, layout, bucketInstanceId, featureIndex, groupID) ==
    collisionIndex

\* collisionIndex.insertCollisionBox for a placed text box (lines 496-499)
InsertTextBox(collisionIndex, box, layout, bucketInstanceId, featureIndex, groupID) ==
    insertCollisionBox(collisionIndex, box, layout.textIgnorePlacement,
                       bucketInstanceId, featureIndex, groupID)

(* One pass of the loop of placeLayerBucket (lines 366-514) over symbol      *)
(* instance i, in the steps of the source.  st is [this, bucket, seen, log]; *)
(* w holds the Placement, the bucket and the locals of the pass; prev is     *)
(* this.prevPlacement.                                                       *)

\* the locals as declared (lines 375-383), with what the pass logs
Locals(st) ==
    [this |-> st.this, bucket |-> st.bucket,
     placeText |-> FALSE, placeIcon |-> FALSE, offscreen |-> TRUE,
     placedGlyphBoxes |-> None, placedGlyphCircles |-> None, placedIconBoxes |-> None,
     attempts |-> << >>, queries |-> << >>, warnings |-> << >>, anchor |-> None,
     textOK |-> FALSE, iconOK |-> FALSE, inserted |-> << >>]

\* a fixed text anchor (lines 405-408)
PlaceFixedTextBox(w, i, collisionGroup) ==
    LET placed == placeCollisionBox(w.this.collisionIndex,
                                    Val(w.bucket.collisionArrays[i].textBox),
                                    w.bucket.layout.textAllowOverlap,
                                    collisionGroup.predicate)
    IN  [w EXCEPT !.placedGlyphBoxes = Some(placed),
                  !.placeText = Len(placed.box) > 0,
                  !.queries = Append(@, "text")]

\* the arguments of attemptAnchorPlacement shared by the anchors (lines 410-412, 425-427)
AnchorContext(bucket, i, collisionGroup) ==
    [dynamicAnchors |-> Val(bucket.layout.dynamicTextAnchor),
     collisionArrays |-> bucket.collisionArrays[i],
     textBox |-> Val(bucket.collisionArrays[i].textBox),
     dynamicTextOffset |-> bucket.symbolInstances[i].dynamicTextOffset,
     textBoxScale |-> bucket.symbolInstances[i].textBoxScale,
     rotateWithMap |-> bucket.layout.rotateWithMap,
     pitchWithMap |-> bucket.layout.pitchWithMap,
     collisionGroup |-> collisionGroup,
     justifications |-> Justifications(bucket.symbolInstances[i]),
     textAllowOverlap |-> bucket.layout.textAllowOverlap,
     symbolInstance |-> bucket.symbolInstances[i]]

\* after the loop over the anchors, nothing taken from the previous Placement
AfterAnchorsNoInherit(w, i, prev, tried) ==
    [w EXCEPT
        !.this = tried.this,
        !.bucket = tried.bucket,
        !.placedGlyphBoxes = tried.result,
        !.placeText = IsSome(tried.result),
        !.attempts = tried.attempts,
        !.warnings = tried.warnings,
        !.queries = [k \in 1..Len(tried.queries) |-> "text"],
        !.anchor = IF IsSome(tried.result)
                   THEN Some(tried.this.dynamicOffsets[
                                w.bucket.symbolInstances[i].crossTileID].anchor)
                   ELSE None]

\* after the loop over the anchors: the offset of the previous Placement is
\* kept by a label that was not placed (lines 428-442)
AfterAnchors(w, i, prev, tried) ==
    LET symbolInstance == w.bucket.symbolInstances[i]
        id == symbolInstance.crossTileID
        prevOffset == PrevOffset(prev, id)
        inherit == id \notin DOMAIN tried.this.dynamicOffsets /\ IsSome(prevOffset)
    IN  [w EXCEPT
            !.this = IF inherit
                     THEN [tried.this EXCEPT !.dynamicOffsets = Put(@, id, Val(prevOffset))]
                     ELSE tried.this,
            !.bucket = IF inherit
                       THEN hideUnplacedJustifications(tried.bucket,
                                getAnchorJustification(Val(prevOffset).anchor),
                                symbolInstance)
                       ELSE tried.bucket,
            !.placedGlyphBoxes = tried.result,
            !.placeText = IsSome(tried.result),
            !.attempts = tried.attempts,
            !.warnings = tried.warnings,
            !.queries = [k \in 1..Len(tried.queries) |-> "text"],
            !.anchor = IF IsSome(tried.result)
                       THEN Some(tried.this.dynamicOffsets[id].anchor)
                       ELSE None]

\* dynamic text anchors (lines 409-443)
PlaceDynamicTextBox(w, i, prev, collisionGroup) ==
    AfterAnchors(w, i, prev,
        AttemptAnchors(w.this, prev, w.bucket,
                       OrderAnchors(Val(w.bucket.layout.dynamicTextAnchor),
                                    PrevOffset(prev, w.bucket.symbolInstances[i].crossTileID)),
                       AnchorContext(w.bucket, i, collisionGroup), << >>, << >>, << >>))

\* offscreen = placedGlyphBoxes && placedGlyphBoxes.offscreen (line 446)
TextBoxOffscreen(w) ==
    [w EXCEPT !.offscreen = IsSome(w.placedGlyphBoxes)
                            /\ Val(w.placedGlyphBoxes).offscreen]

\* lines 405-446
TextBoxStep(w, i, prev, collisionGroup) ==
    TextBoxOffscreen(IF ~IsSome(w.bucket.collisionArrays[i].textBox) THEN w
                     ELSE IF ~IsSome(w.bucket.layout.dynamicTextAnchor)
                     THEN PlaceFixedTextBox(w, i, collisionGroup)
                     ELSE PlaceDynamicTextBox(w, i, prev, collisionGroup))

\* lines 447-470
CirclesStep(w, i, collisionGroup) ==
    LET placed == placeCollisionCircles(w.this.collisionIndex,
                                        Val(w.bucket.collisionArrays[i].textCircles),
                                        w.bucket.layout.textAllowOverlap,
                                        collisionGroup.predicate)
    IN  IF ~IsSome(w.bucket.collisionArrays[i].textCircles) THEN w
        ELSE [w EXCEPT !.placedGlyphCircles = Some(placed),
                       !.placeText = w.bucket.layout.textAllowOverlap
                                     \/ Len(placed.circles) > 0,
                       !.offscreen = @ /\ placed.offscreen,
                       !.queries = Append(@, "circles")]

\* lines 475-480
IconBoxStep(w, i, collisionGroup) ==
    LET placed == placeCollisionBox(w.this.collisionIndex,
                                    Val(w.bucket.collisionArrays[i].iconBox),
                                    w.bucket.layout.iconAllowOverlap,
                                    collisionGroup.predicate)
    IN  IF ~IsSome(w.bucket.collisionArrays[i].iconBox) THEN w
        ELSE [w EXCEPT !.placedIconBoxes = Some(placed),
                       !.placeIcon = Len(placed.box) > 0,
                       !.offscreen = @ /\ placed.offscreen,
                       !.queries = Append(@, "icon")]

\* lines 482-494
CombineStep(w, i) ==
    LET both == CombinePlacement(w.placeText, w.placeIcon, w.bucket.layout,
                                 w.bucket.symbolInstances[i])
    IN  [w EXCEPT !.textOK = w.placeText, !.iconOK = w.placeIcon,
                  !.placeText = both.text, !.placeIcon = both.icon]

\* the text box inserted whenever its own collision attempt succeeded
InsertTextStepUncoupled(w, i, collisionGroup) ==
    IF w.textOK /\ IsSome(w.placedGlyphBoxes)
    THEN [w EXCEPT !.this.collisionIndex =
                        InsertTextBox(@, Val(w.placedGlyphBoxes).box, w.bucket.layout,
                                      w.bucket.bucketInstanceId,
                                      w.bucket.collisionArrays[i].textFeatureIndex,
                                      collisionGroup.ID),
                   !.inserted = Append(@, "text")]
    ELSE w

\* lines 496-499
InsertTextStep(w, i, collisionGroup) ==
    IF w.placeText /\ IsSome(w.placedGlyphBoxes)
    THEN [w EXCEPT !.this.collisionIndex =
                        InsertTextBox(@, Val(w.placedGlyphBoxes).box, w.bucket.layout,
                                      w.bucket.bucketInstanceId,
                                      w.bucket.collisionArrays[i].textFeatureIndex,
                                      collisionGroup.ID),
                   !.inserted = Append(@, "text")]
    ELSE w

\* lines 500-503
InsertIconStep(w, i, collisionGroup) ==
    IF w.placeIcon /\ IsSome(w.placedIconBoxes)
    THEN [w EXCEPT !.this.collisionIndex =
                        insertCollisionBox(@, Val(w.placedIconBoxes).box,
                                           w.bucket.layout.iconIgnorePlacement,
                                           w.bucket.bucketInstanceId,
                                           w.bucket.collisionArrays[i].iconFeatureIndex,
                                           collisionGroup.ID),
                   !.inserted = Append(@, "icon")]
    ELSE w

\* lines 504-507
InsertCirclesStep(w, i, collisionGroup) ==
    IF w.placeText /\ IsSome(w.placedGlyphCircles)
    THEN [w EXCEPT !.this.collisionIndex =
                        insertCollisionCircles(@, Val(w.placedGlyphCircles).circles,
                                               w.bucket.layout.textIgnorePlacement,
                                               w.bucket.bucketInstanceId,
                                               w.bucket.collisionArrays[i].textFeatureIndex,
                                               collisionGroup.ID),
                   !.inserted = @ \o [k \in 1..Len(Val(w.placedGlyphCircles).circles)
                                        |-> "circle"]]
    ELSE w

\* what a pass over instance i of the bucket logs when nothing else happens
SkippedEntry(bucket, i) ==
    [bucket |-> bucket.bucketInstanceId, i |-> i,
     id |-> bucket.symbolInstances[i].crossTileID,
     kind |-> "skipped", attempts |-> << >>, queries |-> << >>, warnings |-> << >>,
     anchor |-> None, textOK |-> FALSE, iconOK |-> FALSE,
     placeText |-> FALSE, placeIcon |-> FALSE, inserted |-> << >>,
     reported |-> [text |-> None, circles |-> None, icon |-> None],
     justReloaded |-> bucket.justReloaded,
     joint |-> None]

\* the offscreen flag of the result of a collision query, if there is a result
OffscreenOf(placed) == IF IsSome(placed) THEN Some(Val(placed).offscreen) ELSE None

\* lines 511-513
RecordStep(st, i, w) ==
    LET id == w.bucket.symbolInstances[i].crossTileID
        joint == JointPlacement(w.placeText \/ AlwaysShowText(w.bucket.layout, w.bucket),
                                w.placeIcon \/ AlwaysShowIcon(w.bucket.layout, w.bucket),
                                w.offscreen \/ w.bucket.justReloaded)
    IN  [this |-> [w.this EXCEPT !.placements = Put(@, id, joint)],
         bucket |-> w.bucket,
         seen |-> st.seen \cup {id},
         log |-> Append(st.log,
                    [SkippedEntry(w.bucket, i) EXCEPT
                        !.kind = "resolved",
                        !.attempts = w.attempts, !.queries = w.queries,
                        !.warnings = w.warnings,
                        !.anchor = w.anchor,
                        !.textOK = w.textOK, !.iconOK = w.iconOK,
                        !.placeText = w.placeText, !.placeIcon = w.placeIcon,
                        !.inserted = w.inserted,
                        !.reported = [text |-> OffscreenOf(w.placedGlyphBoxes),
                                      circles |-> OffscreenOf(w.placedGlyphCircles),
                                      icon |-> OffscreenOf(w.placedIconBoxes)],
                        !.joint = Some(joint)])]

\* the unplaced mark of a holding tile, the label marked as seen as well
HoldStepMarkingSeen(st, i) ==
    [st EXCEPT
        !.this.placements = Put(@, st.bucket.symbolInstances[i].crossTileID,
                                JointPlacement(FALSE, FALSE, FALSE)),
        !.seen = @ \cup {st.bucket.symbolInstances[i].crossTileID},
        !.log = Append(@, [SkippedEntry(st.bucket, i) EXCEPT
                              !.kind = "held",
                              !.joint = Some(JointPlacement(FALSE, FALSE, FALSE))])]

\* lines 371-372
HoldStep(st, i) ==
    [st EXCEPT
        !.this.placements = Put(@, st.bucket.symbolInstances[i].crossTileID,
                                JointPlacement(FALSE, FALSE, FALSE)),
        !.log = Append(@, [SkippedEntry(st.bucket, i) EXCEPT
                              !.kind = "held",
                              !.joint = Some(JointPlacement(FALSE, FALSE, FALSE))])]

PlaceSymbol(st, i, holdingForFade, prev, collisionGroup) ==
    IF AlreadySeen(st.seen, st.bucket.symbolInstances[i].crossTileID)
    THEN [st EXCEPT !.log = Append(@, SkippedEntry(st.bucket, i))]
    ELSE IF holdingForFade THEN HoldStep(st, i)
    ELSE RecordStep(st, i,
            InsertCirclesStep(
                InsertIconStep(
                    InsertTextStep(
                        CombineStep(
                            IconBoxStep(
                                CirclesStep(
                                    TextBoxStep(Locals(st), i, prev, collisionGroup),
                                    i, collisionGroup),
                                i, collisionGroup),
                            i),
                        i, collisionGroup),
                    i, collisionGroup),
                i, collisionGroup))

RECURSIVE PlaceSymbols(_, _, _, _, _)
\* the loop of placeLayerBucket from symbol instance i on
PlaceSymbols(st, i, holdingForFade, prev, collisionGroup) ==
    IF i > Len(st.bucket.symbolInstances) THEN st
    ELSE PlaceSymbols(PlaceSymbol(st, i, holdingForFade, prev, collisionGroup),
                      i + 1, holdingForFade, prev, collisionGroup)

\* the flag of the bucket left as it is
ClearReloadedNot(st) == st

\* bucket.justReloaded = false (line 517)
ClearReloaded(st) == [st EXCEPT !.bucket.justReloaded = FALSE]

\* Placement.placeLayerBucket(bucket, ..., holdingForFade, seenCrossTileIDs, ...)
placeLayerBucket(st, holdingForFade, prev) ==
    LET this0 == [st.this EXCEPT !.collisionGroups =
                    CollisionGroupsAfterGet(@, st.bucket.sourceID)]
        collisionGroup == CollisionGroupsGet(st.this.collisionGroups, st.bucket.sourceID)
        after == PlaceSymbols([st EXCEPT !.this = this0], 1, holdingForFade, prev,
                              collisionGroup)
    IN  ClearReloaded(after)

\* the early return taken only when the tile has no bucket
NothingToPlaceBucketOnly(tile) == ~tile.hasBucket

\* the test of the early return of placeLayerTile (line 239)
NothingToPlace(tile) ==
    ~tile.hasBucket \/ ~tile.latestFeatureIndex \/ ~tile.layerIdMatches

\* Placement.placeLayerTile(styleLayer, tile, showCollisionBoxes, seenCrossTileIDs):
\* st is [this, bucket, seen, log] with the tile's bucket
placeLayerTile(st, tile, holdingForFade, prev) ==
    IF NothingToPlace(tile)
    THEN st
    ELSE placeLayerBucket(
            [st EXCEPT !.this.retainedQueryData =
                Put(@, st.bucket.bucketInstanceId,
                    [bucketInstanceId |-> st.bucket.bucketInstanceId,
                     tileID |-> tile.tileID])],
            holdingForFade, prev)

-----------------------------------------------------------------------------
(* Placement.commit *)

\* the increment of a commit over twice the fade duration
IncrementOverTwice(this, prev, now) ==
    IF IsSome(prev) /\ this.fadeDuration # 0
    THEN Rat(now - Val(prev).commitTime, 2 * this.fadeDuration)
    ELSE ROne

\* the increment of a commit taken as 1 whatever the elapsed time
IncrementAlwaysOne(this, prev, now) == ROne

\* the increment of one commit (lines 542-544)
Increment(this, prev, now) ==
    IF IsSome(prev) /\ this.fadeDuration # 0
    THEN Rat(now - Val(prev).commitTime, this.fadeDuration)
    ELSE ROne

\* no label of the previous pass that is absent now kept
FadingOutNone(this, prev, increment, opacities1) == {}

\* every label of the previous pass that is absent now kept, hidden or not
FadingOutKeepAll(this, prev, increment, opacities1) ==
    IF ~IsSome(prev) THEN {}
    ELSE DOMAIN Val(prev).opacities \ DOMAIN opacities1

\* the keys of the previous opacities that are absent now and have not finished
\* fading (lines 564-573)
FadingOut(this, prev, increment, opacities1) ==
    IF ~IsSome(prev) THEN {}
    ELSE {id \in DOMAIN Val(prev).opacities \ DOMAIN opacities1 :
            ~JointIsHidden(JointOpacityState(Some(Val(prev).opacities[id]),
                                             increment, FALSE, FALSE, FALSE))}

\* the time of the last placement change taken over from the predecessor at
\* every commit that changes nothing (the typeof test dropped)
LastChangeAlwaysInherited(this, prev, now, placementChanged) ==
    IF placementChanged THEN Some(now)
    ELSE IF IsSome(prev) THEN Val(prev).lastPlacementChangeTime ELSE Some(now)

\* the time of the last placement change set by every commit
LastChangeAlwaysNow(this, prev, now, placementChanged) == Some(now)

\* this.lastPlacementChangeTime after commit (lines 584-588)
LastChange(this, prev, now, placementChanged) ==
    IF placementChanged THEN Some(now)
    ELSE IF ~IsSome(this.lastPlacementChangeTime)
    THEN IF IsSome(prev) THEN Val(prev).lastPlacementChangeTime ELSE Some(now)
    ELSE this.lastPlacementChangeTime

\* every offset of the previous Placement carried, whatever the opacity
CarriedOffsetsAll(this, prevOffsets, opacities) ==
    DOMAIN prevOffsets \ DOMAIN this.dynamicOffsets

\* the keys of prevOffsets whose record commit copies (lines 574-578)
CarriedOffsets(this, prevOffsets, opacities) ==
    {id \in DOMAIN prevOffsets \ DOMAIN this.dynamicOffsets :
        id \in DOMAIN opacities /\ ~JointIsHidden(opacities[id])}

\* an opacity state made only for the labels placed with a part shown
PlacedKeysShown(this) ==
    {id \in DOMAIN this.placements : this.placements[id].text \/ this.placements[id].icon}

\* the crossTileIDs the first loop of commit makes an opacity state for
\* (lines 549-561)
PlacedKeys(this) == DOMAIN this.placements

\* Placement.commit(prevPlacement, now): the Placement after the call
commit(this, prev, now) ==
    LET increment == Increment(this, prev, now)
        prevOpacities == IF IsSome(prev) THEN Val(prev).opacities ELSE EmptyMap
        prevOffsets == IF IsSome(prev) THEN Val(prev).dynamicOffsets ELSE EmptyMap
        \* lines 549-561
        opacities1 ==
            [id \in DOMAIN this.opacities \cup PlacedKeys(this) |->
                IF id \in DOMAIN this.placements
                THEN IF id \in DOMAIN prevOpacities
                     THEN JointOpacityState(Some(prevOpacities[id]), increment,
                                            this.placements[id].text,
                                            this.placements[id].icon, FALSE)
                     ELSE JointOpacityState(None, increment,
                                            this.placements[id].text,
                                            this.placements[id].icon,
                                            this.placements[id].skipFade)
                ELSE this.opacities[id]]
        changed1 ==
            \E id \in DOMAIN this.placements :
                IF id \in DOMAIN prevOpacities
                THEN \/ this.placements[id].text # prevOpacities[id].text.placed
                     \/ this.placements[id].icon # prevOpacities[id].icon.placed
                ELSE this.placements[id].text \/ this.placements[id].icon
        \* lines 564-573
        fading == FadingOut(this, prev, increment, opacities1)
        opacities2 ==
            [id \in DOMAIN opacities1 \cup fading |->
                IF id \in DOMAIN opacities1 THEN opacities1[id]
                ELSE JointOpacityState(Some(prevOpacities[id]), increment,
                                       FALSE, FALSE, FALSE)]
        changed2 ==
            \E id \in fading :
                prevOpacities[id].text.placed \/ prevOpacities[id].icon.placed
        \* lines 574-578
        carried == CarriedOffsets(this, prevOffsets, opacities2)
        dynamicOffsets2 ==
            [id \in DOMAIN this.dynamicOffsets \cup carried |->
                IF id \in DOMAIN this.dynamicOffsets THEN this.dynamicOffsets[id]
                ELSE prevOffsets[id]]
    IN  [this EXCEPT
            !.commitTime = now,
            !.opacities = opacities2,
            !.dynamicOffsets = dynamicOffsets2,
            !.lastPlacementChangeTime =
                LastChange(this, prev, now, changed1 \/ changed2)]

\* Placement.symbolFadeChange(now): a rational
symbolFadeChange(this, now) ==
    IF this.fadeDuration = 0 THEN ROne
    ELSE Rat(now - this.commitTime, this.fadeDuration)

\* hasTransitions without the stale flag
hasTransitionsUnlessStale(this, now) ==
    /\ IsSome(this.lastPlacementChangeTime)
    /\ now - Val(this.lastPlacementChangeTime) < this.fadeDuration

\* Placement.hasTransitions(now); before the first commit
\* lastPlacementChangeTime is undefined, the difference is NaN and the
\* comparison is false
hasTransitions(this, now) ==
    \/ this.stale
    \/ /\ IsSome(this.lastPlacementChangeTime)
       /\ now - Val(this.lastPlacementChangeTime) < this.fadeDuration

\* Placement.stillRecent(now)
stillRecent(this, now) == this.commitTime + this.fadeDuration > now

\* Placement.setStale()
setStale(this) == [this EXCEPT !.stale = TRUE]

-----------------------------------------------------------------------------
(* Placement.updateBucketOpacities, Placement.updateLayerOpacities *)

\* Placement.hidePlacedSymbols(bucket, placedSymbolIndex, isHidden)
hidePlacedSymbols(bucket, placedSymbolIndex, isHidden) ==
    IF placedSymbolIndex > 0 - 1 /\ placedSymbolIndex \in DOMAIN bucket.placedSymbols
    THEN [bucket EXCEPT !.placedSymbols[placedSymbolIndex].hidden = isHidden]
    ELSE bucket

\* no symbol instance taken for a duplicate
IsDuplicateNever(seen, crossTileID) == FALSE

\* isDuplicate (line 645): seenCrossTileIDs[crossTileID]
IsDuplicate(seen, crossTileID) == crossTileID \in seen

\* duplicateOpacityState (line 614)
DuplicateOpacityState == JointOpacityState(None, RZero, FALSE, FALSE, TRUE)

\* a default state that shows nothing before placement
DefaultOpacityStateHidden(bucket) == JointOpacityState(None, RZero, FALSE, FALSE, TRUE)

\* defaultOpacityState (lines 624-627)
DefaultOpacityState(bucket) ==
    LET layout == bucket.layout
    IN  JointOpacityState(None, RZero,
            layout.textAllowOverlap /\
                (layout.iconAllowOverlap \/ ~hasIconData(bucket) \/ layout.iconOptional),
            layout.iconAllowOverlap /\
                (layout.textAllowOverlap \/ ~hasTextData(bucket) \/ layout.textOptional),
            TRUE)

\* k copies of x appended to s
RECURSIVE EmplaceBack(_, _, _)
EmplaceBack(s, x, k) == IF k <= 0 THEN s ELSE EmplaceBack(Append(s, x), x, k - 1)

\* updateCollisionVertices(collisionVertexArray, placed, notUsed, shiftX, shiftY)
updateCollisionVertices(collisionVertexArray, placed, notUsed, shiftX, shiftY) ==
    EmplaceBack(collisionVertexArray,
                <<IF placed THEN 1 ELSE 0, IF notUsed THEN 1 ELSE 0, shiftX, shiftY>>, 4)

\* the shift of the debug box of a placed label with dynamic anchors (lines
\* 702-711); None when this.dynamicOffsets has no record for the label: reading
\* dynamicOffset.anchor of undefined throws a TypeError
DebugShift(this, bucket, crossTileID) ==
    IF crossTileID \notin DOMAIN this.dynamicOffsets THEN None
    ELSE LET dynamicOffset == this.dynamicOffsets[crossTileID]
             shift == calculateDynamicLayoutOffset(dynamicOffset.anchor,
                          dynamicOffset.width, dynamicOffset.height,
                          dynamicOffset.radialOffset, dynamicOffset.textBoxScale)
         IN  Some(IF bucket.layout.rotateWithMap
                  THEN Rotate([x |-> shift.x, y |-> shift.y],
                              IF bucket.layout.pitchWithMap THEN this.angle
                              ELSE 4 - this.angle)
                  ELSE [x |-> shift.x, y |-> shift.y])

\* lines 716-727: the icon box and the text circles of instance s
IconAndCircleVertices(r, s, opacityState, isDuplicate) ==
    LET collisionArrays == r.bucket.collisionArrays[s]
        nCircles == IF IsSome(collisionArrays.textCircles)
                       /\ hasCollisionCircleData(r.bucket)
                    THEN Len(Val(collisionArrays.textCircles)) ELSE 0
    IN  [r EXCEPT
            !.bucket.collisionBoxVertexArray =
                IF IsSome(collisionArrays.iconBox)
                THEN updateCollisionVertices(@, opacityState.icon.placed, FALSE, 0, 0)
                ELSE @,
            !.bucket.collisionCircleVertexArray =
                @ \o [k \in 1..(4 * nCircles) |->
                        <<IF opacityState.text.placed THEN 1 ELSE 0,
                          IF isDuplicate THEN 1 ELSE 0, 0, 0>>]]

\* lines 700-715: the text box of instance s, with the shift given (None: the
\* read of the missing record threw)
TextBoxVertices(r, s, opacityState, isDuplicate, shift) ==
    IF ~IsSome(shift) THEN [r EXCEPT !.bucket.threw = TRUE]
    ELSE IconAndCircleVertices(
            [r EXCEPT !.bucket.collisionBoxVertexArray =
                updateCollisionVertices(@, opacityState.text.placed, FALSE,
                                        Val(shift).x, Val(shift).y)],
            s, opacityState, isDuplicate)

\* the collision debug vertices of instance s (lines 697-729); r is what the
\* pass has made of [this, bucket, seen] so far
CollisionVertices(r, s, opacityState, isDuplicate) ==
    IF ~(hasCollisionBoxData(r.bucket) \/ hasCollisionCircleData(r.bucket)) THEN r
    ELSE IF ~IsSome(r.bucket.collisionArrays[s].textBox)
    THEN IconAndCircleVertices(r, s, opacityState, isDuplicate)
    ELSE TextBoxVertices(r, s, opacityState, isDuplicate,
            IF IsSome(r.bucket.layout.dynamicTextAnchor) /\ opacityState.text.placed
            THEN DebugShift(r.this, r.bucket, r.bucket.symbolInstances[s].crossTileID)
            ELSE Some([x |-> 0, y |-> 0]))

(* One pass of the loop of updateBucketOpacities (lines 634-730) over symbol *)
(* instance s.  st is [this, bucket, seen].                                  *)
UpdateSymbol(st, s) ==
    LET this == st.this
        bucket == st.bucket
        symbolInstance == bucket.symbolInstances[s]
        crossTileID == symbolInstance.crossTileID
        isDuplicate == IsDuplicate(st.seen, crossTileID)
        opacityState ==
            IF isDuplicate THEN DuplicateOpacityState
            ELSE IF crossTileID \in DOMAIN this.opacities THEN this.opacities[crossTileID]
            ELSE DefaultOpacityState(bucket)
        this1 == IF ~isDuplicate /\ crossTileID \notin DOMAIN this.opacities
                 THEN [this EXCEPT !.opacities = Put(@, crossTileID, opacityState)]
                 ELSE this
        hasText == symbolInstance.numHorizontalGlyphVertices > 0
                   \/ symbolInstance.numVerticalGlyphVertices > 0
        hasIcon == symbolInstance.numIconVertices > 0
        \* lines 663-685
        hide == OpacityIsHidden(opacityState.text)
        b1 == hidePlacedSymbols(bucket, symbolInstance.verticalPlacedTextSymbolIndex, hide)
        b2 == hidePlacedSymbols(b1, symbolInstance.centerJustifiedTextSymbolIndex, hide)
        b3 == hidePlacedSymbols(b2, symbolInstance.leftJustifiedTextSymbolIndex, hide)
        b4 == hidePlacedSymbols(b3, symbolInstance.rightJustifiedTextSymbolIndex, hide)
        b5 == IF crossTileID \in DOMAIN this1.dynamicOffsets
              THEN hideUnplacedJustifications(b4,
                       getAnchorJustification(this1.dynamicOffsets[crossTileID].anchor),
                       symbolInstance)
              ELSE b4
        b6 == IF hasText
              THEN [b5 EXCEPT !.textOpacityVertexArray =
                       EmplaceBack(@, packOpacity(opacityState.text),
                           (symbolInstance.numHorizontalGlyphVertices
                            + symbolInstance.numVerticalGlyphVertices) \div 4)]
              ELSE bucket
        \* lines 687-694
        b7 == IF hasIcon
              THEN [b6 EXCEPT
                      !.iconOpacityVertexArray =
                          EmplaceBack(@, packOpacity(opacityState.icon),
                                      symbolInstance.numIconVertices \div 4),
                      !.iconHidden[s] = OpacityIsHidden(opacityState.icon)]
              ELSE b6
    IN  CollisionVertices([this |-> this1, bucket |-> b7,
                           seen |-> st.seen \cup {crossTileID}],
                          s, opacityState, isDuplicate)

\* the loop of updateBucketOpacities: it ends at the last symbol instance or
\* where the pass over an instance threw
RECURSIVE UpdateSymbols(_, _)
UpdateSymbols(st, s) ==
    IF s > Len(st.bucket.symbolInstances) \/ st.bucket.threw THEN st
    ELSE UpdateSymbols(UpdateSymbol(st, s), s + 1)

\* the buffers cleared at the start of updateBucketOpacities (lines 608-611)
BuffersCleared(bucket) ==
    [bucket EXCEPT
        !.textOpacityVertexArray = << >>,
        !.iconOpacityVertexArray = << >>,
        !.collisionBoxVertexArray = IF hasCollisionBoxData(bucket) THEN << >> ELSE @,
        !.collisionCircleVertexArray = IF hasCollisionCircleData(bucket) THEN << >> ELSE @,
        !.threw = FALSE]

\* Placement.updateBucketOpacities(bucket, seenCrossTileIDs, collisionBoxArray)
updateBucketOpacities(st) ==
    UpdateSymbols([st EXCEPT !.bucket = BuffersCleared(st.bucket)], 1)

-----------------------------------------------------------------------------
(* The tiles of a layer: how symbol_layout.js and symbol_bucket.js lay out  *)
(* the symbol instances placement reads.  A label is described by            *)
(* [id, text, circles, icon, glyphs, justs, radial]: its crossTileID, the    *)
(* anchor points (None when absent) of its text box, text circle and icon    *)
(* box, whether its text has glyph quads, the justifications generated for   *)
(* it, and its radial text offset.                                           *)

\* a collision box of width 2 and height 2 around the anchor point at
CollisionBox(at) ==
    [x1 |-> 0 - 1, y1 |-> 0 - 1, x2 |-> 1, y2 |-> 1,
     anchorPointX |-> at[1], anchorPointY |-> at[2]]

\* symbol instance i of a bucket, for label l
SymbolInstanceOf(l, i) ==
    LET Index(j, k) == IF j \in l.justs THEN 3 * (i - 1) + k ELSE 0 - 1
    IN  [crossTileID |-> l.id,
         numHorizontalGlyphVertices |-> IF l.glyphs THEN 4 ELSE 0,
         numVerticalGlyphVertices |-> 0,
         numIconVertices |-> IF IsSome(l.icon) THEN 4 ELSE 0,
         leftJustifiedTextSymbolIndex |-> Index("left", 0),
         centerJustifiedTextSymbolIndex |-> Index("center", 1),
         rightJustifiedTextSymbolIndex |-> Index("right", 2),
         verticalPlacedTextSymbolIndex |-> 0 - 1,
         textBoxScale |-> 1,
         dynamicTextOffset |-> l.radial]

\* bucket.collisionArrays[i] for label l
CollisionArraysOf(l, i) ==
    [textBox |-> IF IsSome(l.text) THEN Some(CollisionBox(Val(l.text))) ELSE None,
     textCircles |-> IF IsSome(l.circles) THEN Some(<<CollisionBox(Val(l.circles))>>)
                     ELSE None,
     iconBox |-> IF IsSome(l.icon) THEN Some(CollisionBox(Val(l.icon))) ELSE None,
     textFeatureIndex |-> i,
     iconFeatureIndex |-> i]

\* the symbol bucket of a tile holding the labels ls, for a layer with layout
BucketOf(layout, sourceID, bucketInstanceId, justReloaded, ls) ==
    [layout |-> layout,
     sourceID |-> sourceID,
     bucketInstanceId |-> bucketInstanceId,
     justReloaded |-> justReloaded,
     symbolInstances |-> [i \in 1..Len(ls) |-> SymbolInstanceOf(ls[i], i)],
     collisionArrays |-> [i \in 1..Len(ls) |-> CollisionArraysOf(ls[i], i)],
     placedSymbols |-> [k \in 0..(3 * Len(ls) - 1) |->
                          [crossTileID |-> 0, hidden |-> FALSE]],
     iconHidden |-> [i \in 1..Len(ls) |-> FALSE],
     textOpacityVertexArray |-> << >>,
     iconOpacityVertexArray |-> << >>,
     collisionBoxData |-> FALSE,
     collisionCircleData |-> FALSE,
     collisionBoxVertexArray |-> << >>,
     collisionCircleVertexArray |-> << >>,
     threw |-> FALSE]

\* a tile with a bucket for the layer
TileOf(tileID, bucket) ==
    [tileID |-> tileID, hasBucket |-> TRUE, latestFeatureIndex |-> TRUE,
     layerIdMatches |-> TRUE, bucket |-> bucket]

-----------------------------------------------------------------------------
(* The operations of the host on the newest Placement *)

Top == Len(heap)
\* no operation has been called yet
NoCall == [op |-> "none"]
\* a Placement has been committed
Committed(p) == IsSome(p.lastPlacementChangeTime)
\* the Placement that position k of the heap links to as prevPlacement
PrevOf(k) == IF heap[k].prevPlacement = 0 THEN None
             ELSE Some(heap[heap[k].prevPlacement])

\* the Placement given as prevPlacement left as it is
CapturePrevKept(p) == p

\* what the constructor does to the Placement it is given as prevPlacement
\* (lines 231-233)
CapturePrev(p) == [p EXCEPT !.prevPlacement = 0]

\* new Placement(transform, fadeDuration, crossSourceCollisions, prevPlacement),
\* by a host whose settings do not change; a new sweep starts with it.  The
\* constructor cuts the link of the previous Placement to its own predecessor,
\* which nothing refers to any more: the heap keeps the previous Placement at
\* position 1 and the new one at position 2.
Construct ==
    /\ Committed(heap[Top])
    /\ heap' = <<CapturePrev(heap[Top]),
                 NewPlacement(heap[Top].angle, heap[Top].fadeDuration,
                              heap[Top].collisionGroups.crossSourceCollisions, 1)>>
    /\ seenCrossTileIDs' = {}
    /\ log' = << >>
    /\ call' = [op |-> "new"]
    /\ UNCHANGED <<tiles, absent>>

\* placeLayerTile on a tile the sweep has not placed yet
\* what a call of placeLayerTile on tile t leaves: r is [this, bucket, seen, log]
TilePlaced(t, r) ==
    /\ heap' = [heap EXCEPT ![Top] = r.this]
    /\ tiles' = [tiles EXCEPT ![t].bucket = r.bucket]
    /\ seenCrossTileIDs' = r.seen
    /\ log' = r.log

PlaceTile ==
    \E t \in DOMAIN tiles, holdingForFade \in BOOLEAN :
        /\ ~Committed(heap[Top])
        /\ tiles[t].bucket.bucketInstanceId \notin DOMAIN heap[Top].retainedQueryData
        /\ TilePlaced(t, placeLayerTile(
                            [this |-> heap[Top], bucket |-> tiles[t].bucket,
                             seen |-> seenCrossTileIDs, log |-> log],
                            tiles[t], holdingForFade, PrevOf(Top)))
        /\ call' = [op |-> "placeLayerTile", tile |-> t,
                    holdingForFade |-> holdingForFade]
        /\ UNCHANGED absent

\* History kept for the fade claims: for every crossTileID, None while the last
\* committed Placement has it in its placements; otherwise before, whether a
\* committed Placement had it in its placements earlier, since, the time of the
\* first commit of the current run of commits without it, mono, whether the
\* commit times have not decreased since then, and updated, whether
\* updateBucketOpacities has stored a default state for it since the last
\* commit of a new Placement.
NeverPlaced == [before |-> FALSE, since |-> 0, mono |-> TRUE, updated |-> FALSE]
AbsentAfterCommit(this, prev, now) ==
    [id \in DOMAIN absent |->
        IF id \in DOMAIN this.placements THEN None
        ELSE IF ~IsSome(absent[id])
        THEN Some([before |-> TRUE, since |-> now, mono |-> TRUE, updated |-> FALSE])
        ELSE Some([Val(absent[id]) EXCEPT
                      !.mono = @ /\ (~IsSome(prev) \/ now >= Val(prev).commitTime),
                      !.updated = FALSE])]

\* commit(prevPlacement, now) on the Placement in progress
Commit(times) ==
    \E now \in times :
        /\ ~Committed(heap[Top])
        /\ heap' = [heap EXCEPT ![Top] = commit(heap[Top], PrevOf(Top), now)]
        /\ call' = [op |-> "commit", now |-> now]
        /\ absent' = AbsentAfterCommit(heap[Top], PrevOf(Top), now)
        /\ UNCHANGED <<tiles, seenCrossTileIDs, log>>

\* commit(prevPlacement, now) called once more, right after a commit, with the
\* same previous Placement and the same now
CommitAgain ==
    /\ Committed(heap[Top])
    /\ call.op \in {"commit", "commit again"}
    /\ heap' = [heap EXCEPT ![Top] = commit(heap[Top], PrevOf(Top), call.now)]
    /\ call' = [op |-> "commit again", now |-> call.now, before |-> heap[Top]]
    /\ UNCHANGED <<tiles, seenCrossTileIDs, log, absent>>

RECURSIVE UpdateTiles(_, _, _, _)
\* the loop of updateLayerOpacities over the tiles in order
UpdateTiles(this, tls, order, seen) ==
    IF order = << >> THEN [this |-> this, tiles |-> tls]
    ELSE LET t == Head(order)
         IN  IF tls[t].hasBucket /\ tls[t].latestFeatureIndex /\ tls[t].layerIdMatches
             THEN LET r == updateBucketOpacities(
                               [this |-> this, bucket |-> tls[t].bucket, seen |-> seen])
                  IN  UpdateTiles(r.this, [tls EXCEPT ![t].bucket = r.bucket],
                                  IF r.bucket.threw THEN << >> ELSE Tail(order),
                                  r.seen)
             ELSE UpdateTiles(this, tls, Tail(order), seen)

\* Placement.updateLayerOpacities(styleLayer, tiles), on the committed Placement
\* what a call of updateLayerOpacities leaves: r is [this, tiles]
TilesUpdated(r) ==
    /\ heap' = [heap EXCEPT ![Top] = r.this]
    /\ tiles' = r.tiles
    /\ absent' =
         [id \in DOMAIN absent |->
             IF IsSome(absent[id]) /\ id \notin DOMAIN heap[Top].opacities
                /\ id \in DOMAIN r.this.opacities
             THEN Some([Val(absent[id]) EXCEPT !.updated = TRUE])
             ELSE absent[id]]

UpdateLayerOpacities(orders) ==
    \E order \in orders :
        /\ Committed(heap[Top])
        /\ \A k \in 1..Len(order) : order[k] \in DOMAIN tiles
        /\ TilesUpdated(UpdateTiles(heap[Top], tiles, order, {}))
        /\ call' = [op |-> "updateLayerOpacities", order |-> order]
        /\ UNCHANGED <<seenCrossTileIDs, log>>

\* Placement.setStale() on the Placement in progress
SetStale ==
    /\ heap' = [heap EXCEPT ![Top] = setStale(heap[Top])]
    /\ call' = [op |-> "setStale"]
    /\ UNCHANGED <<tiles, seenCrossTileIDs, log, absent>>

-----------------------------------------------------------------------------
(* Worlds: the layer's layout and the labels of its tiles *)

\* anchor points: on screen; on screen and overlapping PA; inside the grid but
\* off screen (and clear of PA and PB); outside the grid
PA == <<3, 3>>
PB == <<4, 3>>
POff == <<0, 3>>
POut == <<0 - 3, 3>>

Label(id, text, circles, icon, glyphs, justs, radial) ==
    [id |-> id, text |-> text, circles |-> circles, icon |-> icon,
     glyphs |-> glyphs, justs |-> justs, radial |-> radial]
\* a point label with a text box only
TextLabel(id, at) == Label(id, Some(at), None, None, TRUE, {"center"}, 0)
\* a label with an icon only
IconLabel(id, at) == Label(id, None, None, Some(at), FALSE, {}, 0)
\* a point label with a text box and an icon
TextIconLabel(id, textAt, iconAt) ==
    Label(id, Some(textAt), None, Some(iconAt), TRUE, {"center"}, 0)
\* a label along a line: text circles only
LineLabel(id, at) == Label(id, None, Some(at), None, TRUE, {"center"}, 0)

\* a layout with a fixed text anchor
Layout(textOptional, iconOptional, textAllowOverlap, iconAllowOverlap, textIgnorePlacement, iconIgnorePlacement) ==
    [textOptional |-> textOptional, iconOptional |-> iconOptional,
     textAllowOverlap |-> textAllowOverlap, iconAllowOverlap |-> iconAllowOverlap,
     textIgnorePlacement |-> textIgnorePlacement,
     iconIgnorePlacement |-> iconIgnorePlacement,
     dynamicTextAnchor |-> None, rotateWithMap |-> FALSE, pitchWithMap |-> FALSE]
PlainLayout == Layout(FALSE, FALSE, FALSE, FALSE, FALSE, FALSE)

\* the sequences of 1 to n elements of S
SeqsUpTo(S, n) == UNION {[1..k -> S] : k \in 1..n}

\* two tiles of one layer: tile 1 of source "a" with the labels ls1, tile 2 of
\* source source2 with the labels ls2
TwoTiles(layout, ls1, reloaded1, source2, ls2) ==
    <<TileOf(1, BucketOf(layout, "a", 1, reloaded1, ls1)),
      TileOf(2, BucketOf(layout, source2, 2, FALSE, ls2))>>

\* the crossTileIDs of the labels of the tiles tls
AllCrossTileIDs(tls) ==
    UNION {{tls[t].bucket.symbolInstances[i].crossTileID :
                i \in DOMAIN tls[t].bucket.symbolInstances} : t \in DOMAIN tls}

\* the state after the first Placement of a map was constructed over tls
InitWith(tls, angle, fadeDuration, crossSourceCollisions) ==
    /\ heap = <<NewPlacement(angle, fadeDuration, crossSourceCollisions, 0)>>
    /\ tiles = tls
    /\ seenCrossTileIDs = {}
    /\ log = << >>
    /\ call = NoCall
    /\ absent = [id \in AllCrossTileIDs(tls) |-> Some(NeverPlaced)]

\* the Placement in progress
This == heap[Top]
\* the positions of the log before k whose instance was resolved for the same id
ResolvedBefore(k) ==
    {j \in 1..(k - 1) : log[j].id = log[k].id /\ log[j].kind = "resolved"}
\* the entries of both grids of the collision index
AllEntries(collisionIndex) == collisionIndex.grid \o collisionIndex.ignoredGrid
\* the positions of the entries inserted for symbol instance i of bucket b
EntriesOf(collisionIndex, b, i) ==
    {e \in 1..Len(AllEntries(collisionIndex)) :
        /\ AllEntries(collisionIndex)[e].key.bucketInstanceId = b
        /\ AllEntries(collisionIndex)[e].key.featureIndex = i}

-----------------------------------------------------------------------------
(* SpecDedup: one sweep over two tiles whose labels share crossTileIDs *)

MaxLabels == 2
DedupIDs == {1, 2}
DedupLabels ==
    {TextLabel(id, at) : id \in DedupIDs, at \in {PA, PB, POut}}
    \cup {TextIconLabel(id, PA, POff) : id \in DedupIDs}

InitDedup ==
    \E ls1 \in SeqsUpTo(DedupLabels, MaxLabels), ls2 \in SeqsUpTo(DedupLabels, 1) :
        InitWith(TwoTiles(PlainLayout, ls1, FALSE, "a", ls2), 0, 2, TRUE)

NextDedup == PlaceTile

SpecDedup == InitDedup /\ [][NextDedup]_vars

(* C1: in one placement sweep (one shared seenCrossTileIDs map), for each     *)
(* crossTileID only the first symbol instance met in a tile that is not       *)
(* holding for fade runs collision resolution and may insert into the         *)
(* collision index; every later instance with the same crossTileID (in the    *)
(* same bucket or a later tile) is skipped with no collision query, no        *)
(* insertion and no change to placements[crossTileID], also when the first    *)
(* instance failed to place.                                                  *)
C1_FirstInstanceOnly ==
    /\ \A k \in 1..Len(log) :
        /\ ResolvedBefore(k) # {} =>
            /\ log[k].kind = "skipped"
            /\ log[k].queries = << >>
            /\ log[k].inserted = << >>
            /\ EntriesOf(This.collisionIndex, log[k].bucket, log[k].i) = {}
        /\ (ResolvedBefore(k) = {} /\ log[k].kind # "held") => log[k].kind = "resolved"
        /\ Cardinality(EntriesOf(This.collisionIndex, log[k].bucket, log[k].i))
                = Len(log[k].inserted)
    /\ \A id \in seenCrossTileIDs :
        \E k \in 1..Len(log) :
            /\ log[k].id = id /\ log[k].kind = "resolved" /\ ResolvedBefore(k) = {}
            /\ id \in DOMAIN This.placements
            /\ This.placements[id] = Val(log[k].joint)
    /\ Len(AllEntries(This.collisionIndex))
            = Cardinality(UNION {{<<k, p>> : p \in 1..Len(log[k].inserted)} :
                                      k \in 1..Len(log)})

\* a label whose first instance failed to place (text box outside the grid) met
\* again in the next tile, where its box would have been free: skipped unplaced
C1_Witness ==
    \E j \in 1..Len(log), k \in 1..Len(log) :
        /\ j < k
        /\ log[j].id = log[k].id
        /\ log[j].kind = "resolved" /\ ~log[j].placeText /\ ~log[j].placeIcon
        /\ log[k].kind = "skipped" /\ log[k].bucket # log[j].bucket
        /\ ~This.placements[log[k].id].text
        /\ This.collisionIndex.grid = << >>
        /\ tiles[log[k].bucket].bucket.collisionArrays[log[k].i].textBox
                = Some(CollisionBox(PA))

\* the first position of the log at which crossTileID id was resolved, 0 if none
FirstResolved(id) ==
    IF \E k \in 1..Len(log) : log[k].id = id /\ log[k].kind = "resolved"
    THEN CHOOSE k \in 1..Len(log) :
            log[k].id = id /\ log[k].kind = "resolved" /\ ResolvedBefore(k) = {}
    ELSE 0

(* C16: for a tile that is holding for fade, each not-yet-seen symbol         *)
(* instance gets JointPlacement(false, false, false) with no collision query  *)
(* and no insertion, and seenCrossTileIDs is left unchanged, so an instance   *)
(* with the same crossTileID in a later non-holding tile of the same sweep is *)
(* resolved normally and its decision replaces the unplaced mark; a holding   *)
(* tile never overwrites the decision of a crossTileID already seen.          *)
C16_HoldingForFade ==
    /\ \A k \in 1..Len(log) :
        log[k].kind = "held" =>
            /\ ResolvedBefore(k) = {}
            /\ log[k].joint = Some(JointPlacement(FALSE, FALSE, FALSE))
            /\ log[k].queries = << >>
            /\ log[k].inserted = << >>
            /\ EntriesOf(This.collisionIndex, log[k].bucket, log[k].i) = {}
    /\ seenCrossTileIDs = {log[k].id : k \in {j \in 1..Len(log) : log[j].kind = "resolved"}}
    /\ \A j \in 1..Len(log), k \in 1..Len(log) :
        (/\ j < k /\ log[j].kind = "held" /\ log[k].id = log[j].id
         /\ log[k].bucket # log[j].bucket
         /\ ResolvedBefore(k) = {}) =>
            \/ log[k].kind = "held"
            \/ log[k].kind = "resolved" /\ log[k].queries # << >>
    /\ \A id \in DOMAIN This.placements :
        This.placements[id] =
            IF FirstResolved(id) = 0 THEN JointPlacement(FALSE, FALSE, FALSE)
            ELSE Val(log[FirstResolved(id)].joint)

\* a label marked unplaced by a holding tile, then met in the next tile, where
\* it is resolved and placed: the mark is replaced
C16_Witness ==
    \E j \in 1..Len(log), k \in 1..Len(log) :
        /\ j < k
        /\ log[j].kind = "held"
        /\ log[k].id = log[j].id
        /\ log[k].bucket # log[j].bucket
        /\ log[k].kind = "resolved"
        /\ log[k].placeText
        /\ This.placements[log[k].id].text
        /\ log[k].id \in seenCrossTileIDs

-----------------------------------------------------------------------------
(* SpecOrder: one sweep over labels whose text boxes overlap in part *)

\* on screen, overlapping PB but clear of PA
PC == <<6, 3>>

OrderShapes == {<<Some(PA), None>>, <<Some(PB), None>>, <<Some(PC), None>>,
                <<Some(PB), Some(POut)>>}
\* a label of one of the shapes
ShapedLabel(id, shape) ==
    Label(id, shape[1], None, shape[2], IsSome(shape[1]),
          IF IsSome(shape[1]) THEN {"center"} ELSE {}, 0)
OrderLayouts == {PlainLayout,
                 Layout(FALSE, FALSE, TRUE, FALSE, FALSE, FALSE),
                 Layout(FALSE, FALSE, FALSE, FALSE, TRUE, FALSE)}
\* crossSourceCollisions and the source of the second tile
OrderSources == {<<TRUE, "a">>, <<TRUE, "b">>, <<FALSE, "a">>, <<FALSE, "b">>}

InitOrder ==
    \E shapes1 \in SeqsUpTo(OrderShapes, MaxLabels), shape2 \in OrderShapes,
       id2 \in {1, MaxLabels + 1}, layout \in OrderLayouts, src \in OrderSources :
        InitWith(TwoTiles(layout,
                          [k \in 1..Len(shapes1) |-> ShapedLabel(k, shapes1[k])],
                          FALSE, src[2], <<ShapedLabel(id2, shape2)>>),
                 0, 2, src[1])

NextOrder == PlaceTile

SpecOrder == InitOrder /\ [][NextOrder]_vars

\* the text box of the instance of log entry k, projected
TextBoxOf(k) ==
    ProjectBox(Val(tiles[log[k].bucket].bucket.collisionArrays[log[k].i].textBox))
HasTextBox(k) ==
    IsSome(tiles[log[k].bucket].bucket.collisionArrays[log[k].i].textBox)
\* the instances of log entries j and k are tested against each other
SameCollisionGroup(j, k) ==
    \/ This.collisionGroups.crossSourceCollisions
    \/ tiles[log[j].bucket].bucket.sourceID = tiles[log[k].bucket].bucket.sourceID
\* entries j and k: two labels with distinct crossTileIDs, resolved in this
\* order, same collision group, intersecting text boxes, text-allow-overlap
\* false and text-ignore-placement false
Rivals(j, k) ==
    /\ j < k
    /\ log[j].kind = "resolved" /\ log[k].kind = "resolved"
    /\ log[j].id # log[k].id
    /\ HasTextBox(j) /\ HasTextBox(k)
    /\ BoxesIntersect(TextBoxOf(j), TextBoxOf(k))
    /\ SameCollisionGroup(j, k)
    /\ ~tiles[log[j].bucket].bucket.layout.textAllowOverlap
    /\ ~tiles[log[j].bucket].bucket.layout.textIgnorePlacement

(* C2 (as amended): for two labels A and B with distinct crossTileIDs and a   *)
(* fixed text anchor, in the same collision group, whose text collision boxes *)
(* intersect, with text-allow-overlap false and text-ignore-placement false:  *)
(* if A is resolved before B in a sweep and A's text is placed, then A's      *)
(* placement has text true and B's has text false; whichever order the two    *)
(* are resolved in, the first one, once placed, excludes the other.           *)
C2_FirstPlacedExcludesSecond ==
    \A j \in 1..Len(log), k \in 1..Len(log) :
        (Rivals(j, k) /\ log[j].placeText) =>
            /\ This.placements[log[j].id].text
            /\ ~log[k].textOK
            /\ ~This.placements[log[k].id].text

\* A placed and B refused, A and B in different tiles
C2_Witness ==
    \E j \in 1..Len(log), k \in 1..Len(log) :
        /\ Rivals(j, k) /\ log[j].placeText
        /\ log[j].bucket # log[k].bucket
        /\ This.placements[log[j].id].text
        /\ ~This.placements[log[k].id].text

\* C2 as stated: the label processed first is placed and the second is not,
\* whether or not the first one could be placed
C2_AsStated ==
    \A j \in 1..Len(log), k \in 1..Len(log) :
        Rivals(j, k) =>
            /\ This.placements[log[j].id].text
            /\ ~This.placements[log[k].id].text

\* the source of the bucket of log entry k
SourceAt(k) == tiles[log[k].bucket].bucket.sourceID

-----------------------------------------------------------------------------
(* SpecCouple: one sweep over labels with text, icon or both, under every   *)
(* combination of the optional and allow-overlap flags                      *)

CoupleShapes == {<<Some(PA), None>>, <<None, Some(PA)>>, <<None, Some(POut)>>,
                 <<Some(PA), Some(POut)>>, <<Some(POut), Some(PA)>>}
CoupleShapes2 == {<<Some(PB), None>>, <<None, Some(PB)>>}
CoupleLayouts ==
    {Layout(textOptional, iconOptional, textAllowOverlap, iconAllowOverlap, FALSE, FALSE) :
        textOptional \in BOOLEAN, iconOptional \in BOOLEAN,
        textAllowOverlap \in BOOLEAN, iconAllowOverlap \in BOOLEAN}

InitCouple ==
    \E shapes1 \in SeqsUpTo(CoupleShapes, MaxLabels), shape2 \in CoupleShapes2,
       layout \in CoupleLayouts :
        InitWith(TwoTiles(layout,
                          [k \in 1..Len(shapes1) |-> ShapedLabel(k, shapes1[k])],
                          FALSE, "a", <<ShapedLabel(MaxLabels + 1, shape2)>>),
                 0, 2, TRUE)

NextCouple == PlaceTile

SpecCouple == InitCouple /\ [][NextCouple]_vars

\* the bucket, the layout and the symbol instance of log entry k
BucketAt(k) == tiles[log[k].bucket].bucket
LayoutAt(k) == BucketAt(k).layout
InstanceAt(k) == BucketAt(k).symbolInstances[log[k].i]
\* the label of log entry k has icon vertices and no glyph vertices
IconOnly(k) ==
    /\ InstanceAt(k).numIconVertices > 0
    /\ InstanceAt(k).numHorizontalGlyphVertices = 0
    /\ InstanceAt(k).numVerticalGlyphVertices = 0

(* C8 (as amended): for a resolved label that has icon vertices but zero      *)
(* glyph vertices, with text-optional false, placeIcon (before the alwaysShow *)
(* override) equals the success of the icon collision attempt, and placeText  *)
(* equals the success of the text attempt, AND-ed with the success of the     *)
(* icon attempt unless icon-optional is true; the label has no text collision *)
(* geometry, so placeText is false, and the two booleans differ whenever the  *)
(* icon attempt succeeds.                                                     *)
C8_IconOnlyLabel ==
    \A k \in 1..Len(log) :
        (log[k].kind = "resolved" /\ IconOnly(k) /\ ~LayoutAt(k).textOptional) =>
            /\ log[k].placeIcon = log[k].iconOK
            /\ log[k].placeText =
                    (log[k].textOK /\ (LayoutAt(k).iconOptional \/ log[k].iconOK))
            /\ ~log[k].textOK
            /\ ~log[k].placeText
            /\ log[k].iconOK => (log[k].placeIcon # log[k].placeText)

\* an icon-only label whose icon is placed, icon-optional false: the icon is
\* placed and the text is not
C8_Witness ==
    \E k \in 1..Len(log) :
        /\ log[k].kind = "resolved" /\ IconOnly(k)
        /\ ~LayoutAt(k).textOptional /\ ~LayoutAt(k).iconOptional
        /\ log[k].iconOK /\ log[k].placeIcon /\ ~log[k].placeText
        /\ log[k].inserted = <<"icon">>

\* C8 as stated: both booleans equal the success of the icon attempt
C8_AsStated ==
    \A k \in 1..Len(log) :
        (log[k].kind = "resolved" /\ IconOnly(k) /\ ~LayoutAt(k).textOptional) =>
            /\ log[k].placeIcon = log[k].iconOK
            /\ log[k].placeText = log[k].iconOK

\* the bucket holds icon quads / glyph quads
SomeIconVertices(bucket) ==
    \E n \in 1..Len(bucket.symbolInstances) : bucket.symbolInstances[n].numIconVertices > 0
SomeGlyphVertices(bucket) ==
    \E n \in 1..Len(bucket.symbolInstances) :
        bucket.symbolInstances[n].numHorizontalGlyphVertices
            + bucket.symbolInstances[n].numVerticalGlyphVertices > 0

(* C10: in a bucket with text-allow-overlap true and icon-allow-overlap true  *)
(* (icon-optional false) every resolved label is recorded with text true and  *)
(* icon true, also when its icon collision attempt returned no box; in        *)
(* general the recorded text flag is placeText OR (textAllowOverlap AND       *)
(* (iconAllowOverlap OR the bucket has no icon data OR iconOptional)), and    *)
(* the recorded icon flag is placeIcon OR (iconAllowOverlap AND               *)
(* (textAllowOverlap OR the bucket has no text data OR textOptional)).        *)
C10_AlwaysShow ==
    \A k \in 1..Len(log) :
        log[k].kind = "resolved" =>
            /\ (LayoutAt(k).textAllowOverlap /\ LayoutAt(k).iconAllowOverlap) =>
                    (Val(log[k].joint).text /\ Val(log[k].joint).icon)
            /\ Val(log[k].joint).text =
                    (log[k].placeText \/
                     (LayoutAt(k).textAllowOverlap /\
                      (LayoutAt(k).iconAllowOverlap \/ ~SomeIconVertices(BucketAt(k))
                       \/ LayoutAt(k).iconOptional)))
            /\ Val(log[k].joint).icon =
                    (log[k].placeIcon \/
                     (LayoutAt(k).iconAllowOverlap /\
                      (LayoutAt(k).textAllowOverlap \/ ~SomeGlyphVertices(BucketAt(k))
                       \/ LayoutAt(k).textOptional)))
            /\ This.placements[log[k].id] = Val(log[k].joint)

\* both overlaps allowed, icon-optional false, the icon box outside the grid:
\* neither part is placed and the label is recorded as shown
C10_Witness ==
    \E k \in 1..Len(log) :
        /\ log[k].kind = "resolved"
        /\ LayoutAt(k).textAllowOverlap /\ LayoutAt(k).iconAllowOverlap
        /\ ~LayoutAt(k).iconOptional /\ ~LayoutAt(k).textOptional
        /\ IsSome(BucketAt(k).collisionArrays[log[k].i].iconBox)
        /\ IsSome(BucketAt(k).collisionArrays[log[k].i].textBox)
        /\ log[k].textOK /\ ~log[k].iconOK /\ ~log[k].placeText /\ ~log[k].placeIcon
        /\ log[k].inserted = << >>
        /\ This.placements[log[k].id].text /\ This.placements[log[k].id].icon

-----------------------------------------------------------------------------
(* SpecAnchor: labels with dynamic text anchors, placed by successive       *)
(* Placements (different tile orders, tiles held for fade or not)           *)

\* outside the grid unless shifted to the right
PNear == <<0 - 2, 3>>

\* a point label placed with dynamic anchors: a text box, the three
\* justifications, no radial offset
DynamicLabel(id, at) == Label(id, Some(at), None, None, TRUE, {"left", "center", "right"}, 0)
DynamicLayout(anchors) == [PlainLayout EXCEPT !.dynamicTextAnchor = Some(anchors)]

AnchorLists == {<<"auto">>, <<"left", "top", "bottom">>, <<"top", "left", "left">>,
                <<"bottom", "auto", "right", "left">>}
AnchorLabels1 == {<<DynamicLabel(1, PNear)>>, <<DynamicLabel(1, PA)>>,
                  <<DynamicLabel(1, PNear), DynamicLabel(2, POff)>>,
                  <<DynamicLabel(1, PA), DynamicLabel(2, PB)>>}
AnchorLabels2 == {<<DynamicLabel(3, POff)>>, <<DynamicLabel(1, PB)>>}

InitAnchor ==
    \E anchors \in AnchorLists, ls1 \in AnchorLabels1, ls2 \in AnchorLabels2 :
        InitWith(TwoTiles(DynamicLayout(anchors), ls1, FALSE, "a", ls2), 0, 0, TRUE)

\* every tile has been placed by the Placement in progress
SweepDone ==
    \A t \in DOMAIN tiles :
        tiles[t].bucket.bucketInstanceId \in DOMAIN heap[Top].retainedQueryData

\* the host commits a Placement once its sweep is done
CommitSweep(times) == SweepDone /\ Commit(times)

NextAnchor ==
    \/ PlaceTile
    \/ CommitSweep({0})
    \/ Construct

SpecAnchor == InitAnchor /\ [][NextAnchor]_vars

\* the candidate anchors of the layer of log entry k
CandidatesAt(k) ==
    IF Val(LayoutAt(k).dynamicTextAnchor)[1] = "auto" THEN AUTO_DYNAMIC_PLACEMENT
    ELSE Val(LayoutAt(k).dynamicTextAnchor)
\* the previous Placement holds a dynamic offset for the label of log entry k
HasPrevAnchor(k) ==
    /\ IsSome(PrevOf(Top))
    /\ log[k].id \in DOMAIN Val(PrevOf(Top)).dynamicOffsets
PrevAnchorAt(k) == Val(PrevOf(Top)).dynamicOffsets[log[k].id].anchor
\* sequence s less every occurrence of a
Without(s, a) ==
    LET Other(x) == x # a
    IN  SelectSeq(s, Other)
IsPrefix(p, s) == Len(p) <= Len(s) /\ \A n \in 1..Len(p) : p[n] = s[n]
NoRepeat(s) == \A m \in 1..Len(s), n \in 1..Len(s) : m # n => s[m] # s[n]
\* log entry k: a label with a text box resolved with dynamic anchors, whose
\* previous anchor is among the candidates
BiasedAt(k) ==
    /\ log[k].kind = "resolved"
    /\ IsSome(LayoutAt(k).dynamicTextAnchor)
    /\ HasTextBox(k)
    /\ HasPrevAnchor(k)
    /\ Contains(CandidatesAt(k), PrevAnchorAt(k))

(* C7 (as amended): in placeLayerBucket with dynamic anchors, if the previous *)
(* Placement holds a dynamic offset for the label's crossTileID and that      *)
(* anchor is in the candidate list, the first attemptAnchorPlacement call for *)
(* the label uses that anchor and the remaining candidates follow in their    *)
(* original relative order (the list is left as it is when the previous       *)
(* anchor already heads it; otherwise every occurrence of the previous anchor *)
(* is taken out and it is put first); no anchor is attempted twice provided   *)
(* the candidate list does not repeat an anchor.                              *)
C7_PreviousAnchorFirst ==
    \A k \in 1..Len(log) :
        BiasedAt(k) =>
            /\ Len(log[k].attempts) >= 1
            /\ log[k].attempts[1] = PrevAnchorAt(k)
            /\ IsPrefix(Tail(log[k].attempts),
                        IF CandidatesAt(k)[1] = PrevAnchorAt(k)
                        THEN Tail(CandidatesAt(k))
                        ELSE Without(CandidatesAt(k), PrevAnchorAt(k)))
            /\ NoRepeat(CandidatesAt(k)) => NoRepeat(log[k].attempts)

\* the previous anchor, not the head of the list, is attempted first and
\* refused, and other candidates are attempted after it
C7_Witness ==
    \E k \in 1..Len(log) :
        /\ BiasedAt(k)
        /\ CandidatesAt(k)[1] # PrevAnchorAt(k)
        /\ log[k].attempts[1] = PrevAnchorAt(k)
        /\ Len(log[k].attempts) >= 3

\* C7 as stated: no anchor is attempted twice, whatever the candidate list
C7_AsStated ==
    \A k \in 1..Len(log) :
        BiasedAt(k) =>
            /\ log[k].attempts[1] = PrevAnchorAt(k)
            /\ NoRepeat(log[k].attempts)

\* the anchors of log entry k in the order placeLayerBucket goes through them
OrderedAt(k) ==
    OrderAnchors(Val(LayoutAt(k).dynamicTextAnchor), PrevOffset(PrevOf(Top), log[k].id))

\* attemptAnchorPlacement of "auto" for the instance of log entry k, called on
\* the Placement and the bucket as they are now
AutoAttemptAt(k) ==
    attemptAnchorPlacement(This, PrevOf(Top), BucketAt(k), "auto",
        AnchorContext(BucketAt(k), log[k].i,
                      CollisionGroupsGet(This.collisionGroups, BucketAt(k).sourceID)))

(* C17: when the dynamic-anchor list has "auto" at a position other than the  *)
(* first, that entry, once the loop over the anchors comes to it, is skipped  *)
(* with a warning and without a collision query or any state change, and      *)
(* placement continues: the remaining anchors of the label and all later      *)
(* labels of the bucket are still attempted.                                  *)
C17_AutoSkipped ==
    \A k \in 1..Len(log) :
        (log[k].kind = "resolved" /\ CandidatesAt(k)[1] # "auto") =>
            /\ log[k].warnings = SelectSeq([p \in 1..Len(log[k].attempts) |-> p],
                                           LAMBDA p : log[k].attempts[p] = "auto")
            /\ Len(log[k].queries) = Len(log[k].attempts) - Len(log[k].warnings)
            /\ IsPrefix(log[k].attempts, OrderedAt(k))
            /\ ~log[k].textOK => log[k].attempts = OrderedAt(k)
            /\ log[k].textOK =>
                    log[k].anchor = Some(log[k].attempts[Len(log[k].attempts)])
            /\ \A i \in (log[k].i + 1)..Len(BucketAt(k).symbolInstances) :
                    \E j \in (k + 1)..Len(log) :
                        log[j].bucket = log[k].bucket /\ log[j].i = i
            /\ AutoAttemptAt(k) = [result |-> None, this |-> This, bucket |-> BucketAt(k),
                                   queried |-> FALSE, warned |-> TRUE]

\* "auto" met second in the list and skipped, the anchors after it attempted,
\* the label placed with one of them, and the next label of the bucket resolved
C17_Witness ==
    \E k \in 1..Len(log) :
        /\ log[k].kind = "resolved"
        /\ Len(log[k].attempts) >= 3
        /\ log[k].attempts[1] # "auto"
        /\ log[k].attempts[2] = "auto"
        /\ log[k].warnings = <<2>>
        /\ log[k].textOK
        /\ k < Len(log)
        /\ log[k + 1].bucket = log[k].bucket
        /\ log[k + 1].kind = "resolved"
        /\ log[k + 1].queries # << >>

-----------------------------------------------------------------------------
(* SpecFade: a chain of Placements over a tile of two labels with dynamic  *)
(* anchors, each committed at any of the times CommitTimes (commit times    *)
(* need not increase) whether its sweep placed the tile, held it for fade   *)
(* or left it out, with updateLayerOpacities in between                     *)

CommitTimes == {0, 1, 3}
FadeDurations == {0, 2}

\* one tile of source "a" with the labels ls
OneTile(layout, ls) == <<TileOf(1, BucketOf(layout, "a", 1, FALSE, ls))>>

InitFade ==
    \E fadeDuration \in FadeDurations :
        InitWith(OneTile(DynamicLayout(<<"left", "top">>),
                         <<DynamicLabel(1, PA), DynamicLabel(2, POff)>>),
                 0, fadeDuration, TRUE)

NextFade ==
    \/ PlaceTile
    \/ Commit(CommitTimes)
    \/ CommitAgain
    \/ UpdateLayerOpacities({<<1>>})
    \/ Construct

SpecFade == InitFade /\ [][NextFade]_vars

InUnit(r) == RLe(RZero, r) /\ RLe(r, ROne)

(* C3: after any sequence of commit and updateBucketOpacities calls across a  *)
(* chain of Placements, with any increment (above 1 or below 0 included,      *)
(* when commit times are far apart or do not increase), every text and icon   *)
(* OpacityState stored in opacities has its opacity within [0, 1].            *)
C3_OpacityInUnitInterval ==
    \A p \in 1..Len(heap) :
        \A id \in DOMAIN heap[p].opacities :
            /\ InUnit(heap[p].opacities[id].text.opacity)
            /\ InUnit(heap[p].opacities[id].icon.opacity)

\* the increment of the last commit
LastIncrement == Increment(This, PrevOf(Top), This.commitTime)

\* a commit whose increment took a placed label above 1, and another whose
\* negative increment would have taken one below 0: both clamped
C3_Witness ==
    /\ call.op = "commit" /\ IsSome(PrevOf(Top))
    /\ \E id \in DOMAIN This.opacities \cap DOMAIN Val(PrevOf(Top)).opacities :
        LET before == Val(PrevOf(Top)).opacities[id].text
            raw == RAdd(before.opacity,
                        IF before.placed THEN LastIncrement ELSE RNeg(LastIncrement))
        IN  /\ ~InUnit(raw)
            /\ ~RLe(LastIncrement, ROne)
            /\ This.opacities[id].text.opacity = ROne

(* C5: commit(prevPlacement, now) called twice in a row on the same Placement *)
(* with the same now and the same, unmodified previous Placement leaves       *)
(* opacities identical to the result of the first call (same keys, same       *)
(* opacity and placed values for text and icon), and dynamicOffsets and       *)
(* lastPlacementChangeTime too.                                               *)
C5_CommitIdempotent ==
    call.op = "commit again" =>
        /\ This.opacities = call.before.opacities
        /\ This.dynamicOffsets = call.before.dynamicOffsets
        /\ This.lastPlacementChangeTime = call.before.lastPlacementChangeTime

\* a second commit of a Placement that carries a label still fading out from
\* the previous Placement and a dynamic offset
C5_Witness ==
    /\ call.op = "commit again" /\ IsSome(PrevOf(Top))
    /\ This.opacities = call.before.opacities
    /\ This.dynamicOffsets # EmptyMap
    /\ \E id \in DOMAIN This.opacities : id \notin DOMAIN This.placements
    /\ This.lastPlacementChangeTime = Some(This.commitTime)
    /\ Val(PrevOf(Top)).lastPlacementChangeTime # Some(This.commitTime)

\* crossTileID id has been absent from the placements of every Placement
\* committed since a commit at least fadeDuration ago, over commit times that
\* did not decrease
LongAbsent(id) ==
    /\ Committed(This)
    /\ This.fadeDuration > 0
    /\ IsSome(absent[id])
    /\ Val(absent[id]).before
    /\ Val(absent[id]).mono
    /\ This.commitTime >= Val(absent[id]).since + This.fadeDuration

PrevOpacities == IF IsSome(PrevOf(Top)) THEN Val(PrevOf(Top)).opacities ELSE EmptyMap

\* a label of this pass is newly placed, or one of its placed flags differs
\* from the flag the prior pass left in its opacity state
PlacedOrFlipped ==
    \E id \in DOMAIN This.placements :
        IF id \in DOMAIN PrevOpacities
        THEN \/ This.placements[id].text # PrevOpacities[id].text.placed
             \/ This.placements[id].icon # PrevOpacities[id].icon.placed
        ELSE This.placements[id].text \/ This.placements[id].icon

\* the labels the prior pass left placed that this pass has no placement for
PlacedNowAbsent ==
    {id \in DOMAIN PrevOpacities \ DOMAIN This.placements :
        PrevOpacities[id].text.placed \/ PrevOpacities[id].icon.placed}

\* what a first commit without a change leaves as lastPlacementChangeTime
InheritedChangeTime ==
    IF IsSome(PrevOf(Top)) THEN Val(PrevOf(Top)).lastPlacementChangeTime
    ELSE Some(This.commitTime)

(* C18 (as amended): on the first commit of a Placement,                      *)
(* lastPlacementChangeTime is set to now when some label's placed state (text *)
(* or icon) differs from the prior pass: a label newly placed, a placed flag  *)
(* flipped, or a previously placed label now absent that is still fading out  *)
(* (its faded opacity state is not hidden, so it is kept in opacities);       *)
(* otherwise it equals the predecessor's lastPlacementChangeTime, or now when *)
(* there is no predecessor.  A previously placed label that is absent and     *)
(* whose fade completes within this commit does not count as a change.        *)
C18_LastPlacementChangeTime ==
    call.op = "commit" =>
        IF PlacedOrFlipped \/ PlacedNowAbsent \cap DOMAIN This.opacities # {}
        THEN This.lastPlacementChangeTime = Some(This.commitTime)
        ELSE This.lastPlacementChangeTime = InheritedChangeTime

\* both cases at once in one commit after another: a commit that sets the time
\* to now because a label placed before is absent and still fading, and whose
\* predecessor's time is another one
C18_Witness ==
    /\ call.op = "commit"
    /\ IsSome(PrevOf(Top))
    /\ ~PlacedOrFlipped
    /\ PlacedNowAbsent \cap DOMAIN This.opacities # {}
    /\ This.lastPlacementChangeTime = Some(This.commitTime)
    /\ InheritedChangeTime # Some(This.commitTime)

\* C18 as stated: every previously placed label now absent counts as a change,
\* also one whose text and icon were both placed and are hidden at once by a
\* commit whose time lies far enough before its predecessor's
C18_AsStated ==
    call.op = "commit" =>
        IF PlacedOrFlipped \/ PlacedNowAbsent # {}
        THEN This.lastPlacementChangeTime = Some(This.commitTime)
        ELSE This.lastPlacementChangeTime = InheritedChangeTime

-----------------------------------------------------------------------------
(* SpecPure: OpacityState and packOpacity applied to bounded inputs *)

OpacitySteps == 8

\* the opacities k / OpacitySteps of [0, 1]
OpacityValues == {Rat(k, OpacitySteps) : k \in 0..OpacitySteps}
\* increments from below -1 to above 1
IncrementValues ==
    {Rat(k, OpacitySteps) : k \in (0 - OpacitySteps - 2)..(OpacitySteps + 2)}
OpacityStates == [opacity : OpacityValues, placed : BOOLEAN]


InitPure ==
    /\ heap = << >>
    /\ tiles = << >>
    /\ seenCrossTileIDs = {}
    /\ log = << >>
    /\ call = NoCall
    /\ absent = << >>

ApplyOpacityState ==
    /\ \E prevState \in {None} \cup {Some(p) : p \in OpacityStates},
          increment \in IncrementValues, placed \in BOOLEAN, skipFade \in BOOLEAN :
            call' = [op |-> "OpacityState", prevState |-> prevState,
                     increment |-> increment, placed |-> placed, skipFade |-> skipFade,
                     result |-> OpacityState(prevState, increment, placed, skipFade)]
    /\ UNCHANGED <<heap, tiles, seenCrossTileIDs, log, absent>>

ApplyPackOpacity ==
    /\ \E opacityState \in OpacityStates :
            call' = [op |-> "packOpacity", opacityState |-> opacityState,
                     result |-> packOpacity(opacityState)]
    /\ UNCHANGED <<heap, tiles, seenCrossTileIDs, log, absent>>

NextPure == ApplyOpacityState \/ ApplyPackOpacity

SpecPure == InitPure /\ [][NextPure]_vars

\* x clamped to [0, 1]
ClampUnit(x) == IF RLe(x, RZero) THEN RZero ELSE IF RLe(ROne, x) THEN ROne ELSE x

(* C4: an OpacityState built with no previous state has opacity 1 if skipFade *)
(* and placed are both true and 0 otherwise; built from a previous state it   *)
(* has opacity clamp(prev.opacity + increment, 0, 1) when prev.placed is true *)
(* and clamp(prev.opacity - increment, 0, 1) when prev.placed is false        *)
(* (whatever the new placed flag and skipFade are); the new placed flag is    *)
(* stored unchanged.                                                          *)
C4_OpacityStateRule ==
    call.op = "OpacityState" =>
        LET r == call.result
            p == call.prevState
        IN  /\ r.placed = call.placed
            /\ ~IsSome(p) =>
                  r.opacity = (IF call.skipFade /\ call.placed THEN ROne ELSE RZero)
            /\ (IsSome(p) /\ Val(p).placed) =>
                  r.opacity = ClampUnit(RAdd(Val(p).opacity, call.increment))
            /\ (IsSome(p) /\ ~Val(p).placed) =>
                  r.opacity = ClampUnit(RAdd(Val(p).opacity, RNeg(call.increment)))

\* a state built from an unplaced previous state towards placed, with skipFade
\* set: its opacity went down, against the new flag and ignoring skipFade
C4_Witness ==
    /\ call.op = "OpacityState"
    /\ IsSome(call.prevState)
    /\ ~Val(call.prevState).placed
    /\ call.placed
    /\ call.skipFade
    /\ RLe(RZero, call.increment) /\ call.increment # RZero
    /\ call.result.opacity # Val(call.prevState).opacity
    /\ RLe(call.result.opacity, Val(call.prevState).opacity)

(* C9: packOpacity returns 4294967295 for {opacity 1, placed true} and 0 for  *)
(* {opacity 0, placed false}; for every other state the result is an integer  *)
(* in 0..2^32-1 whose four 8-bit lanes are identical, each lane holding       *)
(* floor(opacity * 127) (0..127) in its upper 7 bits and the placed flag in   *)
(* its lowest bit.                                                            *)
C9_PackOpacity ==
    call.op = "packOpacity" =>
        LET w == call.result
            st == call.opacityState
            lanes == Lanes(w)
        IN  /\ (st.opacity = ROne /\ st.placed) => w = <<65535, 65535>>
            /\ (st.opacity = RZero /\ ~st.placed) => w = <<0, 0>>
            /\ ~(st.opacity = ROne /\ st.placed) /\ ~(st.opacity = RZero /\ ~st.placed) =>
                /\ w[1] \in 0..65535 /\ w[2] \in 0..65535
                /\ \A k \in 1..4 :
                    /\ lanes[k] = lanes[1]
                    /\ lanes[k] \in 0..255
                    /\ lanes[k] \div 2 = (st.opacity[1] * 127) \div st.opacity[2]
                    /\ lanes[k] \div 2 \in 0..127
                    /\ lanes[k] % 2 = (IF st.placed THEN 1 ELSE 0)

\* a partly faded, placed state was packed
C9_Witness ==
    /\ call.op = "packOpacity"
    /\ call.opacityState.placed
    /\ call.opacityState.opacity \notin {RZero, ROne}
    /\ Lanes(call.result)[4] % 2 = 1

-----------------------------------------------------------------------------
(* SpecGroups: CollisionGroups.get called for a sequence of source names *)

MaxGets == 4
\* two ordinary source names and one that Object.prototype answers to
GroupSources == {"a", "b", "constructor"}

InitGroups == \E crossSourceCollisions \in BOOLEAN :
                  InitWith(<< >>, 0, 0, crossSourceCollisions)

\* this.collisionGroups.get(sourceID)
GetGroup ==
    \E sourceID \in GroupSources :
        /\ Len(log) < MaxGets
        /\ heap' = [heap EXCEPT ![Top].collisionGroups =
                        CollisionGroupsAfterGet(@, sourceID)]
        /\ log' = Append(log, [sourceID |-> sourceID,
                               group |-> CollisionGroupsGet(heap[Top].collisionGroups,
                                                            sourceID)])
        /\ call' = [op |-> "get", sourceID |-> sourceID]
        /\ UNCHANGED <<tiles, seenCrossTileIDs, absent>>

NextGroups == GetGroup

SpecGroups == InitGroups /\ [][NextGroups]_vars

\* the predicate of group g accepts exactly the keys that carry g's id
PredicateMatchesOwnID(g) ==
    \A id \in 0..MaxGets :
        Accepts(g.predicate, [collisionGroupID |-> id]) <=> (id = g.ID)

(* C11: with cross-source collisions disabled, over any sequence of           *)
(* CollisionGroups.get calls, the first request for a sourceID assigns it a   *)
(* nonzero id, every later request for the same sourceID returns the same id, *)
(* two different sourceIDs never share an id, and each group's predicate      *)
(* accepts a key exactly when the key's collisionGroupID equals the group's   *)
(* id.                                                                        *)
C11_AsStated ==
    ~This.collisionGroups.crossSourceCollisions =>
        \A k \in 1..Len(log) :
            /\ log[k].group.ID # 0 /\ log[k].group.ID # Undefined
            /\ \A j \in 1..Len(log) :
                (log[j].sourceID = log[k].sourceID) <=> (log[j].group.ID = log[k].group.ID)
            /\ PredicateMatchesOwnID(log[k].group)

\* the source named "constructor" is requested after source "a": no id is
\* assigned, and what is returned has no id and no predicate
C11_Witness ==
    /\ ~This.collisionGroups.crossSourceCollisions
    /\ Len(log) = 2
    /\ log[1].sourceID = "a" /\ log[1].group.ID = 1
    /\ log[2].sourceID = "constructor"
    /\ log[2].group = InheritedMember
    /\ This.collisionGroups.maxGroupID = 1
    /\ "constructor" \notin DOMAIN This.collisionGroups.collisionGroups

\* the same with source names that Object.prototype does not answer to
C11_OwnNames ==
    ~This.collisionGroups.crossSourceCollisions =>
        \A k \in 1..Len(log) :
            log[k].sourceID \notin InheritedKeys =>
                /\ log[k].group.ID # 0 /\ log[k].group.ID # Undefined
                /\ \A j \in 1..Len(log) :
                    (log[j].sourceID = log[k].sourceID) <=> (log[j].group.ID = log[k].group.ID)
                /\ PredicateMatchesOwnID(log[k].group)

-----------------------------------------------------------------------------
(* SpecChain: Placements constructed one after the other, each given the    *)
(* one before it as prevPlacement, all of them kept on the heap             *)

MaxPlacements == 3

InitChain ==
    \E fadeDuration \in FadeDurations, crossSourceCollisions \in BOOLEAN :
        InitWith(OneTile(PlainLayout, <<TextLabel(1, PA)>>),
                 0, fadeDuration, crossSourceCollisions)

\* new Placement(transform, fadeDuration, crossSourceCollisions, prevPlacement)
\* with the newest Placement as prevPlacement; earlier Placements stay where
\* they are on the heap
ConstructChained ==
    \E fadeDuration \in FadeDurations :
        /\ Len(heap) < MaxPlacements
        /\ Committed(heap[Top])
        /\ heap' = Append([heap EXCEPT ![Top] = CapturePrev(@)],
                          NewPlacement(heap[Top].angle, fadeDuration,
                                       heap[Top].collisionGroups.crossSourceCollisions,
                                       Top))
        /\ seenCrossTileIDs' = {}
        /\ log' = << >>
        /\ call' = [op |-> "new"]
        /\ UNCHANGED <<tiles, absent>>

NextChain ==
    \/ PlaceTile
    \/ Commit({0, 1})
    \/ ConstructChained

SpecChain == InitChain /\ [][NextChain]_vars

(* C13: after any sequence of Placement constructions in which each new       *)
(* Placement is given the most recently created one as prevPlacement, the     *)
(* chain of prevPlacement links reachable from any Placement has at most one  *)
(* hop: the captured predecessor's own prevPlacement is undefined.            *)
C13_OneHop ==
    \A p \in 1..Len(heap) :
        heap[p].prevPlacement # 0 =>
            heap[heap[p].prevPlacement].prevPlacement = 0

\* the third Placement links to the second, whose link to the first is gone
C13_Witness ==
    /\ Len(heap) = 3
    /\ heap[3].prevPlacement = 2
    /\ heap[2].prevPlacement = 0
    /\ Committed(heap[2])

(* C14 (as amended): a Placement keeps its prevPlacement link from its        *)
(* construction on, through its commit and after it; the link is dropped only *)
(* when the next Placement is constructed with this one as prevPlacement.     *)
(* At any time only the newest Placement holds a link, to the one before it.  *)
C14_LinkKeptUntilCaptured ==
    \A p \in 1..Len(heap) :
        heap[p].prevPlacement = (IF p = Top /\ p > 1 THEN p - 1 ELSE 0)

\* the second Placement has been committed and still links to the first
C14_Witness ==
    /\ call.op = "commit"
    /\ Top = 2
    /\ Committed(heap[Top])
    /\ heap[Top].prevPlacement = 1

\* C14 as stated: after commit returns, the link has been dropped
C14_AsStated ==
    call.op = "commit" => heap[Top].prevPlacement = 0

-----------------------------------------------------------------------------
(* SpecNoop: one sweep over two tiles, each of which may lack the bucket of *)
(* the layer, lack a feature index, or hold a bucket of another layer       *)

\* hasBucket, latestFeatureIndex, layerIdMatches
TileFlags == BOOLEAN \X BOOLEAN \X BOOLEAN

\* a tile whose bucket was just reloaded, with the given flags
FlaggedTile(tileID, flags, ls) ==
    [TileOf(tileID, BucketOf(PlainLayout, "a", tileID, TRUE, ls)) EXCEPT
        !.hasBucket = flags[1],
        !.latestFeatureIndex = flags[2],
        !.layerIdMatches = flags[3]]

InitNoop ==
    \E flags1 \in TileFlags, flags2 \in TileFlags, at \in {PA, PB, POut} :
        InitWith(<<FlaggedTile(1, flags1, <<TextLabel(1, PA)>>),
                   FlaggedTile(2, flags2, <<TextLabel(2, at)>>)>>,
                 0, 2, FALSE)

NextNoop == PlaceTile

SpecNoop == InitNoop /\ [][NextNoop]_vars

(* C15: placeLayerTile is a no-op when the tile has no bucket for the layer,  *)
(* has no latest feature index, or the layer id differs from the bucket's     *)
(* first layer id: placements, dynamicOffsets, retainedQueryData,             *)
(* seenCrossTileIDs, the collision index and the bucket's justReloaded flag   *)
(* (the whole Placement and every tile) are unchanged.                        *)
C15_NoOp ==
    [][\A t \in DOMAIN tiles :
        (/\ call'.op = "placeLayerTile"
         /\ call'.tile = t
         /\ \/ ~tiles[t].hasBucket
            \/ ~tiles[t].latestFeatureIndex
            \/ ~tiles[t].layerIdMatches)
        => /\ heap' = heap
           /\ tiles' = tiles
           /\ seenCrossTileIDs' = seenCrossTileIDs
           /\ log' = log]_vars

\* placeLayerTile has just returned early on tile 2, whose bucket is of
\* another layer, after tile 1 was placed: tile 2's bucket keeps its
\* justReloaded flag and is not among the retained query data
C15_Witness ==
    /\ call.op = "placeLayerTile" /\ call.tile = 2
    /\ tiles[2].hasBucket /\ tiles[2].latestFeatureIndex /\ ~tiles[2].layerIdMatches
    /\ tiles[2].bucket.justReloaded
    /\ DOMAIN This.retainedQueryData = {1}
    /\ DOMAIN This.placements = {1}
    /\ seenCrossTileIDs = {1}
    /\ ~tiles[1].bucket.justReloaded

-----------------------------------------------------------------------------
(* SpecChange: successive Placements over one tile whose single label has a *)
(* text box and an icon box that are both placed; a pass may leave the tile *)
(* out, and commit times may go backwards                                   *)

InitChange ==
    \E fadeDuration \in FadeDurations :
        InitWith(OneTile(PlainLayout, <<TextIconLabel(1, PA, PC)>>),
                 0, fadeDuration, TRUE)

NextChange == PlaceTile \/ Commit(CommitTimes) \/ Construct

SpecChange == InitChange /\ [][NextChange]_vars

-----------------------------------------------------------------------------
(* SpecStale: Placements constructed one after the other and kept on the    *)
(* heap; the newest one is swept, committed and may be marked stale at any  *)
(* moment                                                                   *)

\* the times hasTransitions is asked about
TransitionTimes == 0 .. 5

InitStale ==
    \E fadeDuration \in FadeDurations :
        InitWith(OneTile(PlainLayout, <<TextLabel(1, PA)>>), 0, fadeDuration, TRUE)

NextStale ==
    \/ PlaceTile
    \/ Commit({0, 3})
    \/ ConstructChained
    \/ SetStale

SpecStale == InitStale /\ [][NextStale]_vars

\* now - lastPlacementChangeTime < fadeDuration, false while
\* lastPlacementChangeTime is undefined
WithinFade(p, now) ==
    /\ IsSome(heap[p].lastPlacementChangeTime)
    /\ now - Val(heap[p].lastPlacementChangeTime) < heap[p].fadeDuration

(* C19: once setStale has been called on a Placement, hasTransitions(now) is  *)
(* true for every now in every later state, since no operation resets stale; *)
(* while the Placement is not stale, hasTransitions(now) is true exactly when *)
(* now - lastPlacementChangeTime < fadeDuration; setStale changes nothing but *)
(* the stale flag.                                                            *)
C19_StaleForGood ==
    [][/\ \A p \in DOMAIN heap :
            heap[p].stale =>
                /\ heap'[p].stale
                /\ \A now \in TransitionTimes : hasTransitions(heap'[p], now)
       /\ call'.op = "setStale" =>
            /\ heap' = [heap EXCEPT ![Top].stale = TRUE]
            /\ \A now \in TransitionTimes : hasTransitions(heap'[Top], now)
            /\ UNCHANGED <<tiles, seenCrossTileIDs, log, absent>>
       /\ \A p \in DOMAIN heap' :
            ~heap'[p].stale =>
                \A now \in TransitionTimes :
                    hasTransitions(heap'[p], now) <=> WithinFade(p, now)']_vars

\* three Placements: the first was marked stale and has been swept, committed
\* and captured since, and hasTransitions is true at a time past its fade
\* only because of the flag; the second is not stale and has transitions at
\* one time and none at another; the third is stale before its first commit
C19_Witness ==
    /\ Len(heap) = 3
    /\ heap[1].stale /\ Committed(heap[1]) /\ DOMAIN heap[1].placements = {1}
    /\ hasTransitions(heap[1], 5) /\ ~WithinFade(1, 5)
    /\ ~heap[2].stale /\ Committed(heap[2])
    /\ hasTransitions(heap[2], 1) /\ ~hasTransitions(heap[2], 5)
    /\ heap[3].stale /\ ~Committed(heap[3])
    /\ call.op = "setStale"

-----------------------------------------------------------------------------
(* SpecOffscreen: one sweep over a tile of two labels, each with a text box, *)
(* text circles, an icon box or a text box and an icon box, on the screen or *)
(* in the padding around it, the bucket just reloaded or not                 *)

\* in the padding below the screen, clear of POff
POffBelow == <<3, 0>>

\* text box, text circles, icon box
OffscreenShapes1 ==
    {<<Some(PA), None, None>>, <<Some(POff), None, None>>,
     <<None, None, Some(PA)>>, <<None, None, Some(POff)>>,
     <<None, Some(PA), None>>, <<None, Some(POff), None>>,
     <<Some(POff), None, Some(POff)>>, <<Some(PA), None, Some(POff)>>,
     <<Some(POff), None, Some(PA)>>}
OffscreenShapes2 ==
    {<<Some(POffBelow), None, None>>, <<None, None, Some(POffBelow)>>,
     <<None, Some(POffBelow), None>>, <<None, None, Some(POff)>>}

PartsLabel(id, shape) ==
    Label(id, shape[1], shape[2], shape[3], IsSome(shape[1]) \/ IsSome(shape[2]),
          IF IsSome(shape[1]) \/ IsSome(shape[2]) THEN {"center"} ELSE {}, 0)

InitOffscreen ==
    \E shape1 \in OffscreenShapes1, shape2 \in OffscreenShapes2,
       justReloaded \in BOOLEAN :
        InitWith(<<TileOf(1, BucketOf(PlainLayout, "a", 1, justReloaded,
                                      <<PartsLabel(1, shape1), PartsLabel(2, shape2)>>))>>,
                 0, 2, TRUE)

NextOffscreen == PlaceTile

SpecOffscreen == InitOffscreen /\ [][NextOffscreen]_vars

\* the offscreen flags the collision index reported for the parts of a label
Reports(e) == {e.reported.text, e.reported.circles, e.reported.icon} \ {None}

\* every part the label has was reported offscreen
ReportedOffscreen(e) == Reports(e) # {} /\ \A r \in Reports(e) : Val(r)

(* C20 as stated: the skipFade flag recorded in a resolved label's            *)
(* JointPlacement is true exactly when every candidate part the label has     *)
(* (text box, circles, icon box) was reported offscreen by the collision      *)
(* index or the bucket's justReloaded flag was set, whichever parts the label *)
(* has.                                                                       *)
C20_AsStated ==
    \A k \in DOMAIN log :
        log[k].kind = "resolved" =>
            (Val(log[k].joint).skipFade
                <=> ReportedOffscreen(log[k]) \/ log[k].justReloaded)

\* a label with an icon box only and a label with circles only, each reported
\* offscreen by the collision index in a bucket that was not just reloaded,
\* are recorded without skipFade
C20_Witness ==
    /\ Len(log) = 2
    /\ \A k \in 1..2 :
        /\ log[k].kind = "resolved"
        /\ ~log[k].justReloaded
        /\ log[k].reported.text = None
        /\ ~Val(log[k].joint).skipFade
    /\ log[1].reported = [text |-> None, circles |-> None, icon |-> Some(TRUE)]
    /\ log[2].reported = [text |-> None, circles |-> Some(TRUE), icon |-> None]
    /\ Val(log[1].joint).icon /\ Val(log[2].joint).text

\* what line 446 makes of it: without a text box result the offscreen flag is
\* null whatever the circles and the icon box report
C20_TextBoxLed ==
    \A k \in DOMAIN log :
        log[k].kind = "resolved" =>
            (Val(log[k].joint).skipFade
                <=> \/ IsSome(log[k].reported.text) /\ ReportedOffscreen(log[k])
                    \/ log[k].justReloaded)

-----------------------------------------------------------------------------
(* The opacities a commit leaves, checked in SpecFade and SpecChange *)

\* elapsed time over fadeDuration for the commit just made, 1 without a
\* predecessor or with a zero fadeDuration
ElapsedOverFade ==
    IF IsSome(PrevOf(Top)) /\ This.fadeDuration # 0
    THEN Rat(call.now - Val(PrevOf(Top)).commitTime, This.fadeDuration)
    ELSE ROne

\* a part moved by inc in the direction of its old placed flag, with a new flag
SteppedPart(part, inc, placed) ==
    [opacity |-> ClampUnit(RAdd(part.opacity, IF part.placed THEN inc ELSE RNeg(inc))),
     placed |-> placed]

\* the state of id in the previous Placement stepped toward (false, false)
SteppedOut(id) ==
    [text |-> SteppedPart(PrevOpacities[id].text, ElapsedOverFade, FALSE),
     icon |-> SteppedPart(PrevOpacities[id].icon, ElapsedOverFade, FALSE)]

\* opacity 0 and not placed, for both parts
FullyHidden(s) ==
    /\ s.text.opacity = RZero /\ ~s.text.placed
    /\ s.icon.opacity = RZero /\ ~s.icon.placed

(* C21: after commit, a crossTileID that is absent from this pass's          *)
(* placements is in opacities if and only if it was in the previous           *)
(* Placement's opacities and its state stepped by the increment toward (text  *)
(* false, icon false) is not fully hidden; when retained, its state is that   *)
(* stepped state and both its placed flags are false.                         *)
C21_FadingOutRetained ==
    call.op = "commit" =>
        \A id \in (DOMAIN PrevOpacities \cup DOMAIN This.opacities)
                    \ DOMAIN This.placements :
            /\ id \in DOMAIN This.opacities
                <=> (id \in DOMAIN PrevOpacities /\ ~FullyHidden(SteppedOut(id)))
            /\ id \in DOMAIN This.opacities =>
                /\ This.opacities[id] = SteppedOut(id)
                /\ ~This.opacities[id].text.placed
                /\ ~This.opacities[id].icon.placed

\* a commit of a pass without placements half a fadeDuration after one that
\* had placed both labels halfway in: the labels are retained with both
\* flags false, on their way out
C21_Witness ==
    /\ call.op = "commit"
    /\ DOMAIN This.placements = {}
    /\ DOMAIN PrevOpacities = {1, 2}
    /\ DOMAIN This.opacities = {1, 2}
    /\ ElapsedOverFade = Rat(1, 2)
    /\ \A id \in {1, 2} :
        /\ PrevOpacities[id].text = [opacity |-> Rat(1, 2), placed |-> TRUE]
        /\ This.opacities[id].text = [opacity |-> ROne, placed |-> FALSE]
        /\ This.opacities[id].icon = [opacity |-> RZero, placed |-> FALSE]

(* C26: the increment used by commit is 1 when there is no previous Placement *)
(* or fadeDuration is 0, and otherwise (now - prevPlacement.commitTime) /     *)
(* fadeDuration; the same increment is applied to every crossTileID and to    *)
(* both text and icon in that commit.                                         *)
C26_OneIncrement ==
    call.op = "commit" =>
        \A id \in DOMAIN This.opacities :
            IF id \in DOMAIN PrevOpacities
            THEN /\ This.opacities[id].text.opacity =
                        SteppedPart(PrevOpacities[id].text, ElapsedOverFade, FALSE).opacity
                 /\ This.opacities[id].icon.opacity =
                        SteppedPart(PrevOpacities[id].icon, ElapsedOverFade, FALSE).opacity
            ELSE /\ id \in DOMAIN This.placements
                 /\ This.opacities[id].text.opacity =
                        (IF This.placements[id].skipFade /\ This.placements[id].text
                         THEN ROne ELSE RZero)
                 /\ This.opacities[id].icon.opacity =
                        (IF This.placements[id].skipFade /\ This.placements[id].icon
                         THEN ROne ELSE RZero)

\* a commit half a fadeDuration after its predecessor's moves the text and the
\* icon of a label, both placed and both at 0, up by one half
C26_Witness ==
    /\ call.op = "commit"
    /\ IsSome(PrevOf(Top))
    /\ ElapsedOverFade = Rat(1, 2)
    /\ DOMAIN This.opacities = {1} /\ DOMAIN PrevOpacities = {1}
    /\ PrevOpacities[1].text = [opacity |-> RZero, placed |-> TRUE]
    /\ PrevOpacities[1].icon = [opacity |-> RZero, placed |-> TRUE]
    /\ This.opacities[1].text.opacity = Rat(1, 2)
    /\ This.opacities[1].icon.opacity = Rat(1, 2)

\* the dynamic offsets of the predecessor of the newest Placement
PrevOffsets ==
    IF IsSome(PrevOf(Top)) THEN Val(PrevOf(Top)).dynamicOffsets ELSE EmptyMap

(* C22: after commit, for every crossTileID with a dynamic offset in the      *)
(* previous Placement and no record in this pass's dynamicOffsets, the        *)
(* previous record is carried into dynamicOffsets if and only if the          *)
(* crossTileID has an opacity entry that is not hidden; a record this pass    *)
(* has is never replaced by the carried one.                                  *)
C22_OffsetsCarried ==
    [][call'.op = "commit" =>
        /\ \A id \in DOMAIN PrevOffsets \ DOMAIN heap[Top].dynamicOffsets :
            /\ id \in DOMAIN heap'[Top].dynamicOffsets
                <=> /\ id \in DOMAIN heap'[Top].opacities
                    /\ ~FullyHidden(heap'[Top].opacities[id])
            /\ id \in DOMAIN heap'[Top].dynamicOffsets
                => heap'[Top].dynamicOffsets[id] = PrevOffsets[id]
        /\ \A id \in DOMAIN heap[Top].dynamicOffsets :
            /\ id \in DOMAIN heap'[Top].dynamicOffsets
            /\ heap'[Top].dynamicOffsets[id] = heap[Top].dynamicOffsets[id]
        /\ DOMAIN heap'[Top].dynamicOffsets
            \subseteq DOMAIN heap[Top].dynamicOffsets \cup DOMAIN PrevOffsets]_vars

\* a commit of a pass that held the tile for fading: label 1, unplaced and
\* still fading out, gets the record of the previous Placement; a commit of
\* that kind that leaves a label hidden is the other case, met in the same
\* behaviours
C22_Witness ==
    /\ call.op = "commit"
    /\ DOMAIN This.placements = {1, 2}
    /\ ~This.placements[1].text
    /\ 1 \in DOMAIN PrevOffsets
    /\ 1 \in DOMAIN This.dynamicOffsets
    /\ This.dynamicOffsets[1] = PrevOffsets[1]
    /\ This.opacities[1].text.opacity = Rat(1, 2)
    /\ ~This.opacities[1].text.placed
    /\ \A k \in DOMAIN log : log[k].kind = "held"

-----------------------------------------------------------------------------
(* Coupling and insertion, checked in SpecCouple *)

\* the label of log entry k has glyph vertices
HasGlyphs(k) ==
    InstanceAt(k).numHorizontalGlyphVertices > 0
    \/ InstanceAt(k).numVerticalGlyphVertices > 0

\* the icon of entry k may appear without its text, the text without its icon
IconAlone(k) == LayoutAt(k).textOptional \/ ~HasGlyphs(k)
TextAlone(k) == LayoutAt(k).iconOptional \/ InstanceAt(k).numIconVertices = 0

(* C23: for a label that has both glyph vertices and icon vertices in a layer *)
(* where neither text-optional nor icon-optional is set, the text and icon    *)
(* placement booleans after coupling are equal and are the logical AND of the *)
(* two collision attempts; when exactly one part may appear alone, only the   *)
(* dependent part is AND-ed and the independent part keeps its own result.    *)
C23_Coupling ==
    \A k \in 1..Len(log) :
        log[k].kind = "resolved" =>
            /\ (/\ HasGlyphs(k) /\ InstanceAt(k).numIconVertices > 0
                /\ ~LayoutAt(k).textOptional /\ ~LayoutAt(k).iconOptional)
                => /\ log[k].placeText = (log[k].textOK /\ log[k].iconOK)
                   /\ log[k].placeIcon = log[k].placeText
            /\ (~IconAlone(k) /\ ~TextAlone(k))
                => /\ log[k].placeText = (log[k].textOK /\ log[k].iconOK)
                   /\ log[k].placeIcon = (log[k].textOK /\ log[k].iconOK)
            /\ (IconAlone(k) /\ ~TextAlone(k))
                => /\ log[k].placeText = (log[k].textOK /\ log[k].iconOK)
                   /\ log[k].placeIcon = log[k].iconOK
            /\ (~IconAlone(k) /\ TextAlone(k))
                => /\ log[k].placeIcon = (log[k].textOK /\ log[k].iconOK)
                   /\ log[k].placeText = log[k].textOK

\* neither part optional: a label with text and icon whose text box is free
\* and whose icon box lies outside the grid ends with both booleans false; a
\* label with an icon only, whose icon may appear alone, keeps the success of
\* its icon while its text is AND-ed away
C23_Witness ==
    \E k \in 1..Len(log), j \in 1..Len(log) :
        /\ log[k].kind = "resolved" /\ log[j].kind = "resolved"
        /\ ~LayoutAt(k).textOptional /\ ~LayoutAt(k).iconOptional
        /\ ~LayoutAt(k).textAllowOverlap /\ ~LayoutAt(k).iconAllowOverlap
        /\ HasGlyphs(k) /\ InstanceAt(k).numIconVertices > 0
        /\ log[k].textOK /\ ~log[k].iconOK
        /\ ~log[k].placeText /\ ~log[k].placeIcon
        /\ ~HasGlyphs(j) /\ InstanceAt(j).numIconVertices > 0
        /\ log[j].iconOK /\ log[j].placeIcon /\ ~log[j].placeText

\* the parts of the label of log entry k that have entries in the collision
\* index after the sweep, by the features its bucket counts them under
HasEntries(k) == EntriesOf(This.collisionIndex, log[k].bucket, log[k].i) # {}

(* C24: a label part is inserted into the collision index only if its        *)
(* placement boolean after text/icon coupling is true and its collision       *)
(* attempt returned geometry: a text box whose attempt succeeded but whose    *)
(* label was then unplaced by coupling (icon failed) is not inserted and does *)
(* not block later labels, and a label shown only through the alwaysShow      *)
(* override inserts nothing.                                                  *)
C24_InsertedOnlyIfPlaced ==
    \A k \in 1..Len(log) :
        log[k].kind = "resolved" =>
            /\ Contains(log[k].inserted, "text")
                <=> (log[k].placeText /\ log[k].textOK /\ IsSome(log[k].reported.text))
            /\ Contains(log[k].inserted, "icon")
                <=> (log[k].placeIcon /\ log[k].iconOK /\ IsSome(log[k].reported.icon))
            /\ (~log[k].placeText /\ ~log[k].placeIcon)
                => (log[k].inserted = << >> /\ ~HasEntries(k))
            /\ Cardinality(EntriesOf(This.collisionIndex, log[k].bucket, log[k].i))
                = Len(log[k].inserted)

\* the first label's text box is free but its icon box lies outside the grid,
\* so coupling unplaces the text and nothing is inserted; the label of the
\* second tile, whose text box intersects that box, is placed
C24_Witness ==
    /\ Len(log) = 2
    /\ log[1].kind = "resolved" /\ log[2].kind = "resolved"
    /\ log[1].textOK /\ ~log[1].iconOK /\ ~log[1].placeText
    /\ log[1].inserted = << >>
    /\ HasTextBox(1) /\ HasTextBox(2)
    /\ BoxesIntersect(TextBoxOf(1), TextBoxOf(2))
    /\ ~LayoutAt(1).textAllowOverlap /\ ~LayoutAt(1).textIgnorePlacement
    /\ log[2].textOK /\ log[2].placeText
    /\ log[2].inserted = <<"text">>
    /\ AllEntries(This.collisionIndex) # << >>

-----------------------------------------------------------------------------
(* SpecReload: successive Placements over one tile whose bucket the host     *)
(* reloads now and then (tile.js sets justReloaded on the new bucket)        *)

\* the host marks the bucket of a tile as just reloaded
Reload ==
    \E t \in DOMAIN tiles :
        /\ ~tiles[t].bucket.justReloaded
        /\ tiles' = [tiles EXCEPT ![t].bucket.justReloaded = TRUE]
        /\ call' = [op |-> "reload", tile |-> t]
        /\ UNCHANGED <<heap, seenCrossTileIDs, log, absent>>

InitReload ==
    \E justReloaded \in BOOLEAN :
        InitWith(<<TileOf(1, BucketOf(PlainLayout, "a", 1, justReloaded,
                                      <<TextLabel(1, PA), TextLabel(2, POff)>>))>>,
                 0, 2, TRUE)

NextReload ==
    \/ PlaceTile
    \/ Commit({0, 1})
    \/ Construct
    \/ Reload

SpecReload == InitReload /\ [][NextReload]_vars

\* the offscreen value of line 511 for a resolved log entry
OffscreenAt(e) == IsSome(e.reported.text) /\ ReportedOffscreen(e)

(* C25: placeLayerBucket always leaves bucket.justReloaded false on return,   *)
(* so a bucket's reload forces skipFade only for labels resolved in the first *)
(* placeLayerBucket call after the reload and not in any later pass, until    *)
(* the host sets the flag again.                                              *)
C25_ReloadUsedOnce ==
    [][\A t \in DOMAIN tiles :
        /\ (call'.op = "placeLayerTile" /\ call'.tile = t)
            => /\ ~tiles'[t].bucket.justReloaded
               /\ \A k \in (Len(log) + 1)..Len(log') :
                    /\ log'[k].justReloaded = tiles[t].bucket.justReloaded
                    /\ log'[k].kind = "resolved" =>
                        (Val(log'[k].joint).skipFade
                            <=> OffscreenAt(log'[k]) \/ tiles[t].bucket.justReloaded)
        /\ ~(call'.op \in {"placeLayerTile", "reload"} /\ call'.tile = t)
            => tiles'[t].bucket.justReloaded = tiles[t].bucket.justReloaded]_vars

\* the label on the screen was recorded with skipFade by the pass that met
\* the reloaded bucket and is recorded without it by the next pass
C25_Witness ==
    /\ call.op = "placeLayerTile"
    /\ IsSome(PrevOf(Top))
    /\ 1 \in DOMAIN Val(PrevOf(Top)).placements
    /\ Val(PrevOf(Top)).placements[1].skipFade
    /\ Len(log) = 2
    /\ log[1].kind = "resolved" /\ log[1].id = 1
    /\ log[1].reported.text = Some(FALSE)
    /\ ~log[1].justReloaded
    /\ ~This.placements[1].skipFade
    /\ This.placements[2].skipFade
    /\ ~tiles[1].bucket.justReloaded

-----------------------------------------------------------------------------
(* SpecSweep: updateLayerOpacities over two tiles whose buckets share a      *)
(* crossTileID, between sweeps and commits of successive Placements          *)

SweepLayouts ==
    {Layout(FALSE, FALSE, FALSE, FALSE, FALSE, FALSE),
     Layout(FALSE, FALSE, TRUE, FALSE, FALSE, FALSE),
     Layout(TRUE, FALSE, FALSE, TRUE, FALSE, FALSE),
     Layout(FALSE, TRUE, TRUE, FALSE, FALSE, FALSE)}

SweepOrders == {<<1>>, <<2>>, <<1, 2>>, <<2, 1>>}

InitSweep ==
    \E layout \in SweepLayouts :
        InitWith(TwoTiles(layout, <<TextLabel(1, PA), TextLabel(2, PB)>>, FALSE,
                          "a", <<TextIconLabel(1, PA, PC), IconLabel(3, PB)>>),
                 0, 2, TRUE)

NextSweep ==
    \/ PlaceTile
    \/ Commit({1})
    \/ UpdateLayerOpacities(SweepOrders)
    \/ Construct

SpecSweep == InitSweep /\ [][NextSweep]_vars

\* the symbol instances <<tile, s>> a sweep over the tiles of order meets, in
\* the order it meets them
RECURSIVE Encountered(_)
Encountered(order) ==
    IF order = << >> THEN << >>
    ELSE [s \in 1..Len(tiles[Head(order)].bucket.symbolInstances) |-> <<Head(order), s>>]
         \o Encountered(Tail(order))

InstanceMet(e) == tiles[e[1]].bucket.symbolInstances[e[2]]
HasText(si) == si.numHorizontalGlyphVertices > 0 \/ si.numVerticalGlyphVertices > 0
HasIcon(si) == si.numIconVertices > 0
\* position k of the instances met is the first one of its crossTileID
FirstMet(met, k) ==
    \A j \in 1..(k - 1) : InstanceMet(met[j]).crossTileID # InstanceMet(met[k]).crossTileID
\* the place in the bucket's text (icon) opacity array of instance s: one
\* entry per four vertices of each instance before it
TextSlot(bucket, s) ==
    Cardinality({j \in 1..s : HasText(bucket.symbolInstances[j])})
IconSlot(bucket, s) ==
    Cardinality({j \in 1..s : HasIcon(bucket.symbolInstances[j])})
\* the packed values written for the instance e by the step
TextWritten(e) == tiles'[e[1]].bucket.textOpacityVertexArray[TextSlot(tiles[e[1]].bucket, e[2])]
IconWritten(e) == tiles'[e[1]].bucket.iconOpacityVertexArray[IconSlot(tiles[e[1]].bucket, e[2])]
\* opacity 0, not placed
HiddenPart == [opacity |-> RZero, placed |-> FALSE]

(* C27: in one updateLayerOpacities sweep, for each crossTileID only the      *)
(* first symbol instance encountered (across all buckets of the sweep) is     *)
(* written with the state from opacities; every later instance with the same  *)
(* crossTileID is written with an always-hidden state (opacity 0, not placed, *)
(* packed value 0) and does not change opacities.                             *)
C27_FirstInstanceOnly ==
    [][call'.op = "updateLayerOpacities" =>
        LET met == Encountered(call'.order)
        IN  /\ \A k \in 1..Len(met) :
                LET si == InstanceMet(met[k])
                    state == heap'[Top].opacities[si.crossTileID]
                IN  IF FirstMet(met, k)
                    THEN /\ HasText(si) => TextWritten(met[k]) = packOpacity(state.text)
                         /\ HasIcon(si) => IconWritten(met[k]) = packOpacity(state.icon)
                         /\ si.crossTileID \in DOMAIN heap[Top].opacities
                                => state = heap[Top].opacities[si.crossTileID]
                    ELSE /\ HasText(si) => /\ TextWritten(met[k]) = packOpacity(HiddenPart)
                                           /\ TextWritten(met[k]) = U32(0)
                         /\ HasIcon(si) => /\ IconWritten(met[k]) = packOpacity(HiddenPart)
                                           /\ IconWritten(met[k]) = U32(0)
            /\ \A id \in DOMAIN heap'[Top].opacities :
                 \/ id \in DOMAIN heap[Top].opacities
                      /\ heap'[Top].opacities[id] = heap[Top].opacities[id]
                 \/ \E k \in 1..Len(met) :
                      /\ InstanceMet(met[k]).crossTileID = id
                      /\ FirstMet(met, k)
                      /\ id \notin DOMAIN heap[Top].opacities
                      /\ heap'[Top].opacities[id]
                            = DefaultOpacityState(tiles[met[k][1]].bucket)]_vars

\* label 1 is shown at full opacity; the sweep met it in tile 2 first and wrote
\* the shown state there, and the hidden state for its instance in tile 1
C27_Witness ==
    /\ call.op = "updateLayerOpacities"
    /\ call.order = <<2, 1>>
    /\ 1 \in DOMAIN This.opacities
    /\ This.opacities[1].text = [opacity |-> ROne, placed |-> TRUE]
    /\ tiles[2].bucket.textOpacityVertexArray = <<AllBitsSet>>
    /\ tiles[1].bucket.textOpacityVertexArray[1] = U32(0)
    /\ tiles[1].bucket.textOpacityVertexArray[2] # U32(0)

\* the placed flag of the text (icon) part of the default state of a bucket
DefaultTextPlaced(bucket) ==
    bucket.layout.textAllowOverlap
    /\ (bucket.layout.iconAllowOverlap \/ ~hasIconData(bucket) \/ bucket.layout.iconOptional)
DefaultIconPlaced(bucket) ==
    bucket.layout.iconAllowOverlap
    /\ (bucket.layout.textAllowOverlap \/ ~hasTextData(bucket) \/ bucket.layout.textOptional)
ShownIf(placed) == [opacity |-> IF placed THEN ROne ELSE RZero, placed |-> placed]

(* C28: when updateBucketOpacities meets a non-duplicate crossTileID with no  *)
(* entry in opacities, it uses and stores a default state whose text placed   *)
(* flag is textAllowOverlap and (iconAllowOverlap or no icon data or          *)
(* icon-optional), whose icon placed flag is the symmetric expression, and    *)
(* whose opacity is 1 for a placed part and 0 otherwise; after                *)
(* updateLayerOpacities every crossTileID of every processed bucket has an    *)
(* entry in opacities.                                                        *)
C28_DefaultState ==
    [][call'.op = "updateLayerOpacities" =>
        LET met == Encountered(call'.order)
        IN  \A k \in 1..Len(met) :
                LET si == InstanceMet(met[k])
                    bucket == tiles[met[k][1]].bucket
                IN  /\ si.crossTileID \in DOMAIN heap'[Top].opacities
                    /\ (FirstMet(met, k) /\ si.crossTileID \notin DOMAIN heap[Top].opacities)
                        => LET state == heap'[Top].opacities[si.crossTileID]
                           IN  /\ state.text = ShownIf(DefaultTextPlaced(bucket))
                               /\ state.icon = ShownIf(DefaultIconPlaced(bucket))
                               /\ HasText(si) =>
                                    TextWritten(met[k]) = packOpacity(state.text)
                               /\ HasIcon(si) =>
                                    IconWritten(met[k]) = packOpacity(state.icon)]_vars

\* label 2 was never swept by placement: the sweep over tile 1, whose bucket
\* has no icon data, stored a default state showing its text at once, while
\* label 3 of tile 2 got a default state showing nothing
C28_Witness ==
    /\ call.op = "updateLayerOpacities"
    /\ 2 \notin DOMAIN This.placements
    /\ 3 \notin DOMAIN This.placements
    /\ {2, 3} \subseteq DOMAIN This.opacities
    /\ This.opacities[2].text = [opacity |-> ROne, placed |-> TRUE]
    /\ This.opacities[2].icon = [opacity |-> RZero, placed |-> FALSE]
    /\ This.opacities[3].text = [opacity |-> RZero, placed |-> FALSE]
    /\ This.opacities[3].icon = [opacity |-> RZero, placed |-> FALSE]
    /\ tiles[1].bucket.textOpacityVertexArray[2] = AllBitsSet
    /\ tiles[2].bucket.iconOpacityVertexArray[2] = U32(0)

-----------------------------------------------------------------------------
(* SpecTry: labels with dynamic text anchors, some of them laid out with the *)
(* center justification only, placed by successive Placements                *)

\* a point label with a text box whose only justification is the centered one
CenterLabel(id, at) == Label(id, Some(at), None, None, TRUE, {"center"}, 0)

TryLists == {<<"left", "top", "bottom", "right">>, <<"top", "left", "bottom">>, <<"auto">>}
\* one row below PA
PBelow == <<3, 4>>

TryLabels1 == {<<CenterLabel(1, PBelow), CenterLabel(2, PA)>>,
               <<DynamicLabel(1, PA), CenterLabel(2, PB)>>,
               <<CenterLabel(1, PNear)>>}
TryLabels2 == {<<DynamicLabel(3, PA)>>, <<CenterLabel(2, PB), DynamicLabel(1, PA)>>}

InitTry ==
    \E anchors \in TryLists, ls1 \in TryLabels1, ls2 \in TryLabels2,
       textAllowOverlap \in BOOLEAN :
        InitWith(TwoTiles([DynamicLayout(anchors) EXCEPT
                              !.textAllowOverlap = textAllowOverlap],
                          ls1, FALSE, "a", ls2), 0, 0, TRUE)

NextTry ==
    \/ PlaceTile
    \/ CommitSweep({0})
    \/ Construct

SpecTry == InitTry /\ [][NextTry]_vars

\* log entry k: a label with a text box resolved with dynamic anchors
DynamicAt(k) ==
    /\ log[k].kind = "resolved"
    /\ IsSome(LayoutAt(k).dynamicTextAnchor)
    /\ HasTextBox(k)
\* attemptAnchorPlacement comes to its collision query for anchor a of the
\* label of log entry k
QueriedFor(k, a) ==
    /\ a # "auto"
    /\ ~(/\ IsSome(BucketAt(k).collisionArrays[log[k].i].iconBox)
         /\ Val(LayoutAt(k).dynamicTextAnchor)[1] = "auto"
         /\ a = "center")
    /\ Justifications(InstanceAt(k))[getAnchorJustification(a)] >= 0
\* the text box of log entry k shifted for anchor a, projected
ShiftedBox(k, a) ==
    LET textBox == Val(BucketAt(k).collisionArrays[log[k].i].textBox)
        shift == calculateDynamicLayoutOffset(a, textBox.x2 - textBox.x1,
                     textBox.y2 - textBox.y1, InstanceAt(k).dynamicTextOffset,
                     InstanceAt(k).textBoxScale)
    IN  ProjectBox(shiftDynamicCollisionBox(textBox, shift.x, shift.y,
                       LayoutAt(k).rotateWithMap, LayoutAt(k).pitchWithMap, This.angle))
\* the entries of the grid inserted for the labels logged before entry k
GridBefore(k) ==
    SelectSeq(This.collisionIndex.grid,
              LAMBDA e : \E j \in 1..(k - 1) :
                            /\ log[j].kind = "resolved"
                            /\ e.key.bucketInstanceId = log[j].bucket
                            /\ e.key.featureIndex = log[j].i)
\* the box of anchor a was free when the label of log entry k was resolved
BoxFree(k, a) ==
    /\ isInsideGrid(ShiftedBox(k, a))
    /\ LayoutAt(k).textAllowOverlap
       \/ \A e \in 1..Len(GridBefore(k)) :
            ~BoxesIntersect(ShiftedBox(k, a), GridBefore(k)[e].box)
ReturnsBox(k, a) == QueriedFor(k, a) /\ BoxFree(k, a)

(* C29: for a dynamic-anchor label, anchors are attempted strictly in         *)
(* candidate order and the attempts stop at the first anchor whose collision  *)
(* attempt returns a box: the dynamic offset recorded for the crossTileID     *)
(* carries exactly that anchor, no later anchor is queried, and an anchor     *)
(* whose justification index is negative is skipped without a collision       *)
(* query.                                                                     *)
C29_FirstAnchorThatFits ==
    \A k \in 1..Len(log) :
        DynamicAt(k) =>
            LET att == log[k].attempts
            IN  /\ IsPrefix(att, OrderedAt(k))
                /\ \A p \in 1..(Len(att) - 1) : ~ReturnsBox(k, att[p])
                /\ Len(log[k].queries)
                     = Cardinality({p \in 1..Len(att) : QueriedFor(k, att[p])})
                /\ IF log[k].textOK
                   THEN /\ Len(att) >= 1
                        /\ ReturnsBox(k, att[Len(att)])
                        /\ log[k].anchor = Some(att[Len(att)])
                        /\ log[k].id \in DOMAIN This.dynamicOffsets
                        /\ This.dynamicOffsets[log[k].id].anchor = att[Len(att)]
                   ELSE /\ att = OrderedAt(k)
                        /\ \A p \in 1..Len(att) : ~ReturnsBox(k, att[p])
                        /\ log[k].anchor = None

\* the first anchor has no justification and is passed without a query, the
\* second is queried and refused, the third is queried and recorded, and the
\* fourth is never attempted
C29_Witness ==
    \E k \in 1..Len(log) :
        /\ DynamicAt(k)
        /\ OrderedAt(k) = <<"left", "top", "bottom", "right">>
        /\ log[k].attempts = <<"left", "top", "bottom">>
        /\ ~QueriedFor(k, "left")
        /\ Len(log[k].queries) = 2
        /\ log[k].textOK
        /\ This.dynamicOffsets[log[k].id].anchor = "bottom"

\* no anchor returned a box for the label of log entry k
NoAnchorFits(k) == DynamicAt(k) /\ ~log[k].textOK

(* C30: if no anchor succeeds for a dynamic-anchor label and the previous     *)
(* Placement holds a dynamic offset for its crossTileID, this pass's          *)
(* dynamicOffsets entry for that crossTileID is the previous record unchanged *)
(* (same anchor) and the label's text placement is false; if no previous      *)
(* record exists, no entry is created.                                        *)
C30_PreviousOffsetKept ==
    \A k \in 1..Len(log) :
        NoAnchorFits(k) =>
            /\ ~log[k].placeText
            /\ Val(log[k].joint).text = AlwaysShowText(LayoutAt(k), BucketAt(k))
            /\ IF HasPrevAnchor(k)
               THEN /\ log[k].id \in DOMAIN This.dynamicOffsets
                    /\ This.dynamicOffsets[log[k].id]
                         = Val(PrevOf(Top)).dynamicOffsets[log[k].id]
               ELSE log[k].id \notin DOMAIN This.dynamicOffsets

\* the label was placed with an anchor by the previous Placement and finds no
\* anchor free in this pass: it keeps the previous record and is not placed
C30_Witness ==
    \E k \in 1..Len(log) :
        /\ NoAnchorFits(k)
        /\ HasPrevAnchor(k)
        /\ Val(PrevOf(Top)).placements[log[k].id].text
        /\ Len(log[k].queries) >= 1
        /\ ~LayoutAt(k).textAllowOverlap
        /\ ~This.placements[log[k].id].text
        /\ This.dynamicOffsets[log[k].id].anchor = PrevAnchorAt(k)

-----------------------------------------------------------------------------
(* What a committed Placement holds, checked in SpecFade *)

(* C31: after commit, every crossTileID with an entry in dynamicOffsets also  *)
(* has an entry in opacities, and every crossTileID in this pass's placements *)
(* has an entry in opacities.                                                 *)
C31_OpacityForEveryRecord ==
    Committed(This) =>
        /\ DOMAIN This.dynamicOffsets \subseteq DOMAIN This.opacities
        /\ DOMAIN This.placements \subseteq DOMAIN This.opacities

\* a commit of a pass that held its tile: label 1 is recorded unplaced, keeps
\* the dynamic offset of the previous Placement and has a state on its way out
C31_Witness ==
    /\ call.op = "commit"
    /\ IsSome(PrevOf(Top))
    /\ 1 \in DOMAIN This.placements
    /\ ~This.placements[1].text
    /\ 1 \in DOMAIN This.dynamicOffsets
    /\ This.dynamicOffsets[1] = Val(PrevOf(Top)).dynamicOffsets[1]
    /\ 1 \in DOMAIN This.opacities
    /\ ~JointIsHidden(This.opacities[1])

-----------------------------------------------------------------------------
(* SpecDebug: a layer with dynamic text anchors on a map that shows its      *)
(* collision boxes: sweeps, commits and updateLayerOpacities over two tiles  *)

\* a tile whose bucket has collision debug buffers
DebugTile(tileID, layout, ls) ==
    TileOf(tileID, [BucketOf(layout, "a", tileID, FALSE, ls) EXCEPT
                        !.collisionBoxData = TRUE])

DebugOrders == {<<1, 2>>, <<2, 1>>}

\* the layout of the layer: two dynamic anchors
DebugLayout(textAllowOverlap) ==
    [DynamicLayout(<<"left", "top">>) EXCEPT !.textAllowOverlap = textAllowOverlap]

InitDebug ==
    \E textAllowOverlap \in BOOLEAN :
        InitWith(<<DebugTile(1, DebugLayout(textAllowOverlap),
                             <<DynamicLabel(1, PA), DynamicLabel(2, POut)>>),
                   DebugTile(2, DebugLayout(textAllowOverlap),
                             <<DynamicLabel(3, PB)>>)>>,
                 0, 0, TRUE)

NextDebug ==
    \/ PlaceTile
    \/ Commit({0})
    \/ UpdateLayerOpacities(DebugOrders)
    \/ Construct

SpecDebug == InitDebug /\ [][NextDebug]_vars

\* the labels with a text box of the buckets of the last updateLayerOpacities
\* call whose text opacity state has placed true
ShownWithTextBox ==
    {id \in DOMAIN This.opacities :
        /\ This.opacities[id].text.placed
        /\ \E n \in 1..Len(call.order) :
             \E s \in 1..Len(tiles[call.order[n]].bucket.symbolInstances) :
                /\ tiles[call.order[n]].bucket.symbolInstances[s].crossTileID = id
                /\ IsSome(tiles[call.order[n]].bucket.collisionArrays[s].textBox)
                /\ IsSome(tiles[call.order[n]].bucket.layout.dynamicTextAnchor)}

(* C32: in updateBucketOpacities for a layer with dynamic anchors, whenever a *)
(* label with a text box has a text opacity state with placed true, a dynamic *)
(* offset record exists for its crossTileID, so the collision-debug shift is  *)
(* never computed from a missing record; this includes labels shown through   *)
(* the alwaysShowText override and labels given the synthesized default state.*)
C32_AsStated ==
    call.op = "updateLayerOpacities" =>
        /\ ShownWithTextBox \subseteq DOMAIN This.dynamicOffsets
        /\ \A t \in DOMAIN tiles : ~tiles[t].bucket.threw

\* label 3 was not swept before the commit: updateBucketOpacities gave it the
\* default state, which shows its text under text-allow-overlap, found no
\* dynamic offset record for it and threw before writing its debug vertices
C32_Witness ==
    /\ call.op = "updateLayerOpacities"
    /\ call.order = <<2, 1>>
    /\ 3 \notin DOMAIN This.placements
    /\ 3 \in DOMAIN This.opacities
    /\ This.opacities[3].text = [opacity |-> ROne, placed |-> TRUE]
    /\ 3 \notin DOMAIN This.dynamicOffsets
    /\ tiles[2].bucket.threw
    /\ tiles[2].bucket.collisionBoxVertexArray = << >>
    /\ tiles[2].bucket.textOpacityVertexArray = <<AllBitsSet>>

\* with text-allow-overlap off, every label shown has its record and the
\* debug vertices of every text box are written
C32_WithoutAllowOverlap ==
    (call.op = "updateLayerOpacities"
     /\ \A t \in DOMAIN tiles : ~tiles[t].bucket.layout.textAllowOverlap) =>
        /\ ShownWithTextBox \subseteq DOMAIN This.dynamicOffsets
        /\ \A t \in DOMAIN tiles : ~tiles[t].bucket.threw

-----------------------------------------------------------------------------
(* SpecJustify: one label whose symbol instance in tile 1 was laid out with  *)
(* the three justifications and whose instance in tile 2 has the centered    *)
(* one only                                                                  *)

JustifyLists == {<<"left", "top">>, <<"top", "left">>}
JustifyOrders == {<<1, 2>>, <<2, 1>>}

InitJustify ==
    \E anchors \in JustifyLists :
        InitWith(TwoTiles(DynamicLayout(anchors), <<DynamicLabel(1, PA)>>, FALSE,
                          "a", <<CenterLabel(1, POut)>>),
                 0, 0, TRUE)

NextJustify ==
    \/ PlaceTile
    \/ Commit({0})
    \/ UpdateLayerOpacities(JustifyOrders)
    \/ Construct

SpecJustify == InitJustify /\ [][NextJustify]_vars

\* the placed-symbol index of symbol instance si for the justification of anchor
IndexFor(si, anchor) == Justifications(si)[getAnchorJustification(anchor)]
\* the placed-symbol indices generated for symbol instance si
Generated(si) == {Justifications(si)[j] : j \in {"left", "center", "right"}} \ {0 - 1}
\* hideUnplacedJustifications, called for instance si of bucket with anchor, has
\* left the placed symbol of the anchor's justification with the crossTileID
\* and the other generated ones with 0
Justified(bucket, si, anchor) ==
    /\ IndexFor(si, anchor) >= 0
    /\ bucket.placedSymbols[IndexFor(si, anchor)].crossTileID = si.crossTileID
    /\ \A n \in Generated(si) \ {IndexFor(si, anchor)} :
            bucket.placedSymbols[n].crossTileID = 0

(* C33: hideUnplacedJustifications is only ever invoked with a justification  *)
(* whose placed-symbol index for that symbol instance is non-negative (on a   *)
(* fresh anchor success, on inheriting a stale offset, and in                 *)
(* updateBucketOpacities); after it runs, the chosen justification's placed   *)
(* symbol carries the label's crossTileID and every other generated           *)
(* justification variant with a different index carries 0.                    *)
C33_AsStated ==
    /\ call.op = "updateLayerOpacities" =>
        \A t \in DOMAIN tiles :
            \A s \in 1..Len(tiles[t].bucket.symbolInstances) :
                LET si == tiles[t].bucket.symbolInstances[s]
                IN  (HasText(si) /\ si.crossTileID \in DOMAIN This.dynamicOffsets) =>
                        Justified(tiles[t].bucket, si,
                                  This.dynamicOffsets[si.crossTileID].anchor)
    /\ call.op = "placeLayerTile" =>
        \A k \in 1..Len(log) :
            (DynamicAt(k) /\ log[k].bucket = call.tile
             /\ log[k].id \in DOMAIN This.dynamicOffsets) =>
                Justified(BucketAt(k), InstanceAt(k), This.dynamicOffsets[log[k].id].anchor)

\* the Placement recorded the anchor "left" for label 1 from its instance in
\* tile 1; updateLayerOpacities met the instance of tile 2 first, wrote the
\* shown state for it and called hideUnplacedJustifications with the left
\* justification, whose index there is negative: no placed symbol of the
\* instance carries the crossTileID
C33_Witness ==
    /\ call.op = "updateLayerOpacities"
    /\ call.order = <<2, 1>>
    /\ 1 \in DOMAIN This.dynamicOffsets
    /\ This.dynamicOffsets[1].anchor = "left"
    /\ This.opacities[1].text = [opacity |-> ROne, placed |-> TRUE]
    /\ IndexFor(tiles[2].bucket.symbolInstances[1], "left") < 0
    /\ tiles[2].bucket.textOpacityVertexArray = <<AllBitsSet>>
    /\ \A n \in Generated(tiles[2].bucket.symbolInstances[1]) :
            tiles[2].bucket.placedSymbols[n].crossTileID = 0
    /\ tiles[1].bucket.textOpacityVertexArray = <<U32(0)>>

\* on a fresh anchor success the index is not negative and the placed symbols
\* of the instance are left as stated
C33_FreshSuccess ==
    call.op = "placeLayerTile" =>
        \A k \in 1..Len(log) :
            (DynamicAt(k) /\ log[k].bucket = call.tile /\ log[k].textOK) =>
                Justified(BucketAt(k), InstanceAt(k), Val(log[k].anchor))

-----------------------------------------------------------------------------
(* SpecLists: the arrays behind lines 412-421.  The heap holds the array     *)
(* objects: the module's AUTO_DYNAMIC_PLACEMENT, the array the layout        *)
(* returns for dynamic-text-anchor, and the array the last filter call made. *)
(* anchors is a reference to one of them.                                    *)

MaxOrderings == 3

\* the previous anchor put in front of the array anchors refers to, in place
ShiftToFrontInPlace(arrays, anchors, prevAnchor) ==
    [arrays |-> [arrays EXCEPT ![anchors] =
                    <<prevAnchor>> \o SelectSeq(@, LAMBDA a : a # prevAnchor)],
     anchors |-> anchors]

\* lines 418-419: anchors = anchors.filter(...) makes a new array and
\* anchors.unshift(...) writes to that one
ShiftToFront(arrays, anchors, prevAnchor) ==
    [arrays |-> [arrays EXCEPT !.filtered =
                    <<prevAnchor>> \o SelectSeq(arrays[anchors], LAMBDA a : a # prevAnchor)],
     anchors |-> "filtered"]

\* lines 412-421 on the array objects: the arrays after the lines and the
\* array anchors refers to
OrderAnchorsByReference(arrays, prevOffset) ==
    LET anchors == IF arrays.dynamicTextAnchor[1] = "auto" THEN "AUTO_DYNAMIC_PLACEMENT"
                   ELSE "dynamicTextAnchor"
    IN  IF IsSome(prevOffset) /\ arrays[anchors][1] # Val(prevOffset).anchor
        THEN ShiftToFront(arrays, anchors, Val(prevOffset).anchor)
        ELSE [arrays |-> arrays, anchors |-> anchors]

ConfiguredLists == {<<"auto">>, <<"left", "top", "bottom">>}
PrevOffsetsTried == {None} \cup {Some([anchor |-> a]) : a \in {"top", "left", "bottom-right"}}

InitLists ==
    /\ \E dynamicTextAnchor \in ConfiguredLists :
        heap = [AUTO_DYNAMIC_PLACEMENT |-> AUTO_DYNAMIC_PLACEMENT,
                dynamicTextAnchor |-> dynamicTextAnchor,
                filtered |-> << >>]
    /\ tiles = << >>
    /\ seenCrossTileIDs = {}
    /\ log = << >>
    /\ call = NoCall
    /\ absent = << >>

\* the candidate anchors of one more label are put in order
OrderLabel ==
    \E prevOffset \in PrevOffsetsTried :
        /\ Len(log) < MaxOrderings
        /\ heap' = OrderAnchorsByReference(heap, prevOffset).arrays
        /\ log' = Append(log,
                     [prevOffset |-> prevOffset,
                      configured |-> heap.dynamicTextAnchor,
                      anchors |-> heap'[OrderAnchorsByReference(heap, prevOffset).anchors]])
        /\ call' = [op |-> "order anchors"]
        /\ UNCHANGED <<tiles, seenCrossTileIDs, absent>>

NextLists == OrderLabel

SpecLists == InitLists /\ [][NextLists]_vars

(* C34: moving a label's previous anchor to the front of its candidate list   *)
(* never modifies the shared AUTO_DYNAMIC_PLACEMENT list or the layer's       *)
(* configured dynamic-text-anchor list: after any number of labels and passes *)
(* both lists have their original contents and order, so one label's          *)
(* stability bias never changes the candidate order of another label.         *)
C34_SharedListsKept ==
    /\ heap.AUTO_DYNAMIC_PLACEMENT = AUTO_DYNAMIC_PLACEMENT
    /\ heap.dynamicTextAnchor \in ConfiguredLists
    /\ \A k \in 1..Len(log) :
        /\ log[k].configured = heap.dynamicTextAnchor
        /\ log[k].anchors = OrderAnchors(heap.dynamicTextAnchor, log[k].prevOffset)

\* a label whose previous anchor was moved to the front of the automatic list,
\* followed by a label without previous anchor that got the list as it was
C34_Witness ==
    /\ Len(log) >= 2
    /\ heap.dynamicTextAnchor = <<"auto">>
    /\ log[1].prevOffset = Some([anchor |-> "left"])
    /\ log[1].anchors[1] = "left"
    /\ log[1].anchors # AUTO_DYNAMIC_PLACEMENT
    /\ log[2].prevOffset = None
    /\ log[2].anchors = AUTO_DYNAMIC_PLACEMENT

-----------------------------------------------------------------------------
(* The draw stage: drawLayerSymbols reads the dynamic offsets of the         *)
(* committed Placement to shift the text of a layer with dynamic anchors     *)

RMul(a, b) == Rat(a[1] * b[1], a[2] * b[2])
\* the value of property name of a JavaScript object, None when the object
\* has no such property (undefined)
PropertyOf(object, name) == IF name \in DOMAIN object THEN Some(object[name]) ELSE None

\* calculateDynamicShift(anchor, width, height, radialOffset, textBoxScale);
\* radialOffset is None when the caller hands undefined
calculateDynamicShift(anchor, width, height, radialOffset, textBoxScale) ==
    LET al == getAnchorAlignment(anchor)
        shiftX == Rat(0 - (al.horizontalAlign2 - 1) * width, 2)
        shiftY == Rat(0 - (al.verticalAlign2 - 1) * height, 2)
        offset == IF IsSome(radialOffset) /\ Val(radialOffset) # 0
                  THEN getDynamicOffset(anchor, Val(radialOffset))
                  ELSE <<0, 0>>
    IN  [x |-> RAdd(RMul(shiftX, Rat(1, textBoxScale)), Rat(offset[1], 1)),
         y |-> RAdd(RMul(shiftY, Rat(1, textBoxScale)), Rat(offset[2], 1))]

\* a * t + b * (1 - t)
Interpolated(a, b, t) == RAdd(RMul(a, t), RMul(b, RAdd(ROne, RNeg(t))))

\* the shift read from the radialOffset property of the record
SymbolShiftFromRadialOffset(dynamicOffset, t) ==
    LET shift == calculateDynamicShift(dynamicOffset.anchor, dynamicOffset.width,
                     dynamicOffset.height, PropertyOf(dynamicOffset, "radialOffset"),
                     dynamicOffset.textBoxScale)
        prevShift == calculateDynamicShift(Val(dynamicOffset.prevAnchor),
                         dynamicOffset.width, dynamicOffset.height,
                         PropertyOf(dynamicOffset, "radialOffset"),
                         dynamicOffset.textBoxScale)
    IN  IF IsSome(dynamicOffset.prevAnchor)
           /\ Val(dynamicOffset.prevAnchor) # dynamicOffset.anchor
        THEN [x |-> Interpolated(shift.x, prevShift.x, t),
              y |-> Interpolated(shift.y, prevShift.y, t)]
        ELSE shift

\* the shift of one placed symbol (drawLayerSymbols, lines 186-191)
SymbolShift(dynamicOffset, t) ==
    LET shift == calculateDynamicShift(dynamicOffset.anchor, dynamicOffset.width,
                     dynamicOffset.height, PropertyOf(dynamicOffset, "dynamicTextOffset"),
                     dynamicOffset.textBoxScale)
        prevShift == calculateDynamicShift(Val(dynamicOffset.prevAnchor),
                         dynamicOffset.width, dynamicOffset.height,
                         PropertyOf(dynamicOffset, "dynamicTextOffset"),
                         dynamicOffset.textBoxScale)
    IN  IF IsSome(dynamicOffset.prevAnchor)
           /\ Val(dynamicOffset.prevAnchor) # dynamicOffset.anchor
        THEN [x |-> Interpolated(shift.x, prevShift.x, t),
              y |-> Interpolated(shift.y, prevShift.y, t)]
        ELSE shift

\* the loop of drawLayerSymbols over the placed symbols of a bucket (lines
\* 172-192): for each, None when its glyphs are hidden, or its shift
DrawnSymbols(bucket, dynamicOffsets, t) ==
    [s \in DOMAIN bucket.placedSymbols |->
        IF bucket.placedSymbols[s].hidden THEN None
        ELSE IF bucket.placedSymbols[s].crossTileID \notin DOMAIN dynamicOffsets THEN None
        ELSE Some(SymbolShift(dynamicOffsets[bucket.placedSymbols[s].crossTileID], t))]

FadeChanges == {RZero, Rat(1, 2), ROne}

\* drawLayerSymbols for the text of the layer, with the dynamic offsets of the
\* committed Placement
DrawLayerSymbols ==
    \E t \in FadeChanges :
        /\ Committed(heap[Top])
        /\ call' = [op |-> "drawLayerSymbols", t |-> t,
                    drawn |-> [n \in DOMAIN tiles |->
                                 DrawnSymbols(tiles[n].bucket, heap[Top].dynamicOffsets, t)]]
        /\ UNCHANGED <<heap, tiles, seenCrossTileIDs, log, absent>>

\* a point label with dynamic anchors and the radial text offset given
RadialLabel(id, at, radial) ==
    Label(id, Some(at), None, None, TRUE, {"left", "center", "right"}, radial)

RadialOffsets == {0, 1}

InitDraw ==
    \E radial \in RadialOffsets, anchors \in {<<"top", "left">>, <<"left", "bottom">>} :
        InitWith(OneTile(DynamicLayout(anchors),
                         <<RadialLabel(1, PA, radial), RadialLabel(2, PB, radial)>>),
                 0, 0, TRUE)

NextDraw ==
    \/ PlaceTile
    \/ Commit({0})
    \/ UpdateLayerOpacities({<<1>>})
    \/ Construct
    \/ DrawLayerSymbols

SpecDraw == InitDraw /\ [][NextDraw]_vars

\* the placed symbols of tile n drawn with a shift for a record whose radial
\* offset is not zero
DrawnRadial(n) ==
    {s \in DOMAIN call.drawn[n] :
        /\ IsSome(call.drawn[n][s])
        /\ This.dynamicOffsets[tiles[n].bucket.placedSymbols[s].crossTileID].radialOffset # 0}

(* C35: for a placed dynamic-anchor label with a nonzero radial offset, the   *)
(* shift the draw stage computes from the label's dynamic offset record uses  *)
(* the radial offset value that placement stored in that record, so the       *)
(* rendered anchor shift and the shift used for the collision box agree on    *)
(* the radial component.                                                      *)
C35_AsStated ==
    call.op = "drawLayerSymbols" =>
        \A n \in DOMAIN tiles :
            \A s \in DrawnRadial(n) :
                Val(call.drawn[n][s])
                    = SymbolShiftFromRadialOffset(
                        This.dynamicOffsets[tiles[n].bucket.placedSymbols[s].crossTileID],
                        call.t)

\* label 1 was placed with the anchor "top" and radial offset 1: the collision
\* box was shifted down by half the height plus the radial offset, and the
\* draw stage shifts the text by half the height only
C35_Witness ==
    /\ call.op = "drawLayerSymbols"
    /\ 1 \in DOMAIN This.dynamicOffsets
    /\ This.dynamicOffsets[1].anchor = "top"
    /\ This.dynamicOffsets[1].radialOffset = 1
    /\ This.dynamicOffsets[1].prevAnchor = None
    /\ calculateDynamicLayoutOffset("top", This.dynamicOffsets[1].width,
                                    This.dynamicOffsets[1].height, 1,
                                    This.dynamicOffsets[1].textBoxScale) = [x |-> 0, y |-> 2]
    /\ \E s \in DOMAIN call.drawn[1] :
        /\ tiles[1].bucket.placedSymbols[s].crossTileID = 1
        /\ call.drawn[1][s] = Some([x |-> RZero, y |-> ROne])

\* for a record without radial offset the draw stage and placement agree
C35_WithoutRadialOffset ==
    call.op = "drawLayerSymbols" =>
        \A n \in DOMAIN tiles :
            \A s \in DOMAIN call.drawn[n] :
                (IsSome(call.drawn[n][s]) /\ s \notin DrawnRadial(n)) =>
                    Val(call.drawn[n][s])
                        = SymbolShiftFromRadialOffset(
                            This.dynamicOffsets[tiles[n].bucket.placedSymbols[s].crossTileID],
                            call.t)

-----------------------------------------------------------------------------
(* SpecRise: a chain of Placements kept on the heap, each swept (or held, or *)
(* not swept) and committed at one of the times of RiseTimes                 *)

RiseTimes == {0, 1, 2}

InitRise ==
    \E fadeDuration \in FadeDurations :
        InitWith(OneTile(PlainLayout, <<TextLabel(1, PA)>>), 0, fadeDuration, TRUE)

NextRise ==
    \/ PlaceTile
    \/ Commit(RiseTimes)
    \/ ConstructChained

SpecRise == InitRise /\ [][NextRise]_vars

\* the Placements i..j of the heap are committed passes that all placed the
\* text of id, those after i with fade duration D, at times that do not decrease
PlacedThroughout(id, i, j, D) ==
    /\ \A k \in i..j :
        /\ Committed(heap[k])
        /\ id \in DOMAIN heap[k].placements
        /\ heap[k].placements[id].text
    /\ \A k \in (i + 1)..j :
        /\ heap[k].fadeDuration = D
        /\ heap[k - 1].commitTime <= heap[k].commitTime

=============================================================================
